---- MODULE Spec2Model ----
(***************************************************************************)
(* Model of lmstudio-agent-config: the generators that turn a model        *)
(* catalog into four target payloads, the four format-preserving mergers   *)
(* (update_settings_file, update_opencode_file, update_pi_file,            *)
(* update_codex_file), the diff/confirm gate, the backup rotator and the   *)
(* main() driver with its single-target and all-targets modes.             *)
(*                                                                         *)
(* Representation.                                                         *)
(*  - A JSON/TOML value is a tagged record: t is "obj", "arr", "num",      *)
(*    "bool", "str" or "null", and a second field named after the kind     *)
(*    holds the value (f a function from keys to values, a a sequence,     *)
(*    n, b, s).                                                            *)
(*    Key order is not part of a value; the order in which a generator     *)
(*    inserts keys and emits models is given apart from the value          *)
(*    (MapKeyOrders, ModelOrder).                                          *)
(*  - The text of a file is a record [kind, value, indent, canon]:         *)
(*    kind "empty" is the empty string, "invalid" a text the parser        *)
(*    rejects, "valid" a text that parses to value.  indent is what        *)
(*    detect_indentation reads off the text and canon says that the text   *)
(*    is byte for byte what the serializer prints for value (FALSE for a   *)
(*    hand-written file with comments, trailing commas or other spacing).  *)
(*    Two texts are the same string iff the records are equal.             *)
(*                                                                         *)
(* Sources.  The mergers, the gate and the rotator follow files.py and     *)
(* utils.py, the driver follows main() in cli.py.  cli.py carries its own  *)
(* copies of the mergers; they differ from files.py only in that its       *)
(* update_settings_file never creates the parent directory, which no run   *)
(* of the model depends on: a settings file is either there or its         *)
(* directory is.                                                           *)
(***************************************************************************)
EXTENDS Integers, Sequences, FiniteSets, TLC

\* ------------------------------------------------------------------------
\* Values
\* ------------------------------------------------------------------------
EmptyMap == [k \in {} |-> 0]

Null == [t |-> "null"]

Obj(f) == [t |-> "obj", f |-> f]

Arr(a) == [t |-> "arr", a |-> a]

Num(n) == [t |-> "num", n |-> n]

Bool(b) == [t |-> "bool", b |-> b]

Str(s) == [t |-> "str", s |-> s]

\* isinstance(x, dict)
IsDict(x) == x.t = "obj"

\* d.get(k, default) on a dict value
Get(d, k, default) == IF k \in DOMAIN d.f THEN d.f[k] ELSE default

\* d.get(k) when d may be something other than a dict, Null then
GetIfDict(d, k) == IF IsDict(d) THEN Get(d, k, Null) ELSE Null

\* d[k] = x on a dict value (a copy with the key set)
Put(d, k, x) == Obj([kk \in (DOMAIN d.f) \cup {k} |-> IF kk = k THEN x ELSE d.f[kk]])

\* del d[k] for every k in ks
Del(d, ks) == Obj([kk \in (DOMAIN d.f) \ ks |-> d.f[kk]])

\* Python truthiness: bool(x) / "not x"
Truthy(x) ==
    CASE x.t = "null" -> FALSE
      [] x.t = "bool" -> x.b
      [] x.t = "num" -> x.n # 0
      [] x.t = "str" -> x.s # ""
      [] x.t = "arr" -> x.a # <<>>
      [] x.t = "obj" -> DOMAIN x.f # {}

\* ------------------------------------------------------------------------
\* Strings
\* ------------------------------------------------------------------------
\* The characters the model uses, in ascending code point order.
Chars ==
    <<" ", "!", "-", ".", "/",
      "0", "1", "2", "3", "4", "5", "6", "7", "8", "9",
      "A", "B", "C", "D", "E", "F", "G", "H", "I", "J", "K", "L", "M",
      "N", "O", "P", "Q", "R", "S", "T", "U", "V", "W", "X", "Y", "Z",
      "_",
      "a", "b", "c", "d", "e", "f", "g", "h", "i", "j", "k", "l", "m",
      "n", "o", "p", "q", "r", "s", "t", "u", "v", "w", "x", "y", "z">>

\* ord(c) for every character of the alphabet
OrdTable ==
    [c \in {Chars[i] : i \in 1..Len(Chars)} |-> CHOOSE i \in 1..Len(Chars) : Chars[i] = c]

Ord(c) == OrdTable[c]

Digits == {"0", "1", "2", "3", "4", "5", "6", "7", "8", "9"}

UpperCase == {Chars[i] : i \in Ord("A")..Ord("Z")}

LowerCase == {Chars[i] : i \in Ord("a")..Ord("z")}

\* s[i] as a one-character string
CharAt(s, i) == SubSeq(s, i, i)

\* s[1:]
Rest(s) == SubSeq(s, 2, Len(s))

\* s[:-1]
Front(s) == SubSeq(s, 1, Len(s) - 1)

\* str.lower() on one character
LowerChar(c) == IF c \in UpperCase THEN Chars[Ord(c) + (Ord("a") - Ord("A"))] ELSE c

\* str.lower()
RECURSIVE Lower(_)
Lower(s) == IF s = "" THEN "" ELSE LowerChar(CharAt(s, 1)) \o Lower(Rest(s))

\* s.startswith(p)
StartsWith(s, p) == Len(s) >= Len(p) /\ SubSeq(s, 1, Len(p)) = p

\* s.endswith(p)
EndsWith(s, p) == Len(s) >= Len(p) /\ SubSeq(s, Len(s) - Len(p) + 1, Len(s)) = p

\* s.rstrip(c)
RECURSIVE RStrip(_, _)
RStrip(s, c) == IF s # "" /\ CharAt(s, Len(s)) = c THEN RStrip(Front(s), c) ELSE s

\* s.lstrip(c)
RECURSIVE LStrip(_, _)
LStrip(s, c) == IF s # "" /\ CharAt(s, 1) = c THEN LStrip(Rest(s), c) ELSE s

\* Python's < on strings: lexicographic by code point
RECURSIVE StrLess(_, _)
StrLess(x, y) ==
    IF y = "" THEN FALSE
    ELSE IF x = "" THEN TRUE
    ELSE IF CharAt(x, 1) = CharAt(y, 1) THEN StrLess(Rest(x), Rest(y))
    ELSE Ord(CharAt(x, 1)) < Ord(CharAt(y, 1))

\* str(n) for n >= 0
RECURSIVE ToDecimal(_)
ToDecimal(n) ==
    IF n < 10 THEN Chars[Ord("0") + n]
    ELSE ToDecimal(n \div 10) \o Chars[Ord("0") + (n % 10)]

\* sorted(S) for a set of strings
RECURSIVE SortedSeq(_)
SortedSeq(S) ==
    IF S = {} THEN <<>>
    ELSE LET least == CHOOSE x \in S : \A y \in S \ {x} : StrLess(x, y)
         IN  <<least>> \o SortedSeq(S \ {least})

\* ------------------------------------------------------------------------
\* utils.py
\* ------------------------------------------------------------------------
V1Suffix == "/v1"

\* A faulty normalize_openai_base_url that appends the suffix whatever the
\* URL ends in
normalize_always_appending(url) == RStrip(url, "/") \o V1Suffix

\* normalize_openai_base_url(url)
normalize_openai_base_url(url) ==
    LET base == RStrip(url, "/")
    IN  IF EndsWith(base, V1Suffix) THEN base ELSE base \o V1Suffix

\* ------------------------------------------------------------------------
\* models.py
\* ------------------------------------------------------------------------
get_model_id(model) == Get(model, "key", Null)

model_supports_tool_calling(model) ==
    LET capabilities == Get(model, "capabilities", Null)
    IN  IF IsDict(capabilities)
        THEN Truthy(Get(capabilities, "trained_for_tool_use", Null))
        ELSE FALSE

model_supports_vision(model) ==
    LET capabilities == Get(model, "capabilities", Null)
    IN  IF IsDict(capabilities)
        THEN Truthy(Get(capabilities, "vision", Null))
        ELSE FALSE

IsLlm(model) == Get(model, "type", Null) = Str("llm")

\* isinstance(x, int); a Python bool is an int
IsPyInt(x) == x.t \in {"num", "bool"}

PyIntVal(x) == IF x.t = "bool" THEN (IF x.b THEN 1 ELSE 0) ELSE x.n

\* A faulty model_matches_filters that wants more context than asked for
model_matches_filters_strict(model, min_context, tools_filter, vision_filter) ==
    LET max_context == Get(model, "max_context_length", Null)
        has_tools == IF IsLlm(model) THEN model_supports_tool_calling(model) ELSE FALSE
        has_vision == IF IsLlm(model) THEN model_supports_vision(model) ELSE FALSE
    IN  /\ min_context # Null =>
              (IsPyInt(max_context) /\ PyIntVal(max_context) > min_context.n)
        /\ ~(tools_filter = "required" /\ ~has_tools)
        /\ ~(tools_filter = "exclude" /\ has_tools)
        /\ ~(vision_filter = "required" /\ ~has_vision)
        /\ ~(vision_filter = "exclude" /\ has_vision)

\* min_context is Null (None) or Num(n)
model_matches_filters(model, min_context, tools_filter, vision_filter) ==
    LET max_context == Get(model, "max_context_length", Null)
        has_tools == IF IsLlm(model) THEN model_supports_tool_calling(model) ELSE FALSE
        has_vision == IF IsLlm(model) THEN model_supports_vision(model) ELSE FALSE
    IN  /\ min_context # Null =>
              (IsPyInt(max_context) /\ PyIntVal(max_context) >= min_context.n)
        /\ ~(tools_filter = "required" /\ ~has_tools)
        /\ ~(tools_filter = "exclude" /\ has_tools)
        /\ ~(vision_filter = "required" /\ ~has_vision)
        /\ ~(vision_filter = "exclude" /\ has_vision)

\* A faulty filter_models that forgets the vision criterion
filter_models_without_vision(models, min_context, tools_filter, vision_filter) ==
    LET Keep(m) == model_matches_filters(m, min_context, tools_filter, "any")
    IN  SelectSeq(models, Keep)

filter_models(models, min_context, tools_filter, vision_filter) ==
    LET Keep(m) == model_matches_filters(m, min_context, tools_filter, vision_filter)
    IN  SelectSeq(models, Keep)

\* ------------------------------------------------------------------------
\* generators.py
\* ------------------------------------------------------------------------
Ok(x) == [ok |-> TRUE, err |-> "none", val |-> x]

Raise(e) == [ok |-> FALSE, err |-> e, val |-> Null]

DefaultContext == 8192

ManagedPrefix == "lmstudio-"

ProfilePrefix == "lmstudio"

SlugChars == LowerCase \cup Digits

\* re.sub(r"[^a-z0-9]+", "-", s): every maximal run of other characters
\* becomes one "-"
RECURSIVE SubRuns(_)
SubRuns(s) ==
    IF s = "" THEN ""
    ELSE IF CharAt(s, 1) \in SlugChars THEN CharAt(s, 1) \o SubRuns(Rest(s))
    ELSE IF Len(s) >= 2 /\ CharAt(s, 2) \notin SlugChars THEN SubRuns(Rest(s))
    ELSE "-" \o SubRuns(Rest(s))

Slug(model_id) ==
    LET slug == RStrip(LStrip(SubRuns(Lower(model_id)), "-"), "-")
    IN  IF slug = "" THEN "model" ELSE slug

RECURSIVE FreeName(_, _, _)
FreeName(base, index, used_names) ==
    LET name == base \o "-" \o ToDecimal(index)
    IN  IF name \in used_names THEN FreeName(base, index + 1, used_names) ELSE name

\* A faulty codex_profile_name_for_model that starts counting at 1
codex_profile_name_from_one(model_id, used_names) ==
    LET base == ProfilePrefix \o "-" \o Slug(model_id)
    IN  IF base \in used_names THEN FreeName(base, 1, used_names) ELSE base

\* codex_profile_name_for_model(model_id, used_names): the returned name;
\* the caller's used set becomes used_names \cup {name}
codex_profile_name_for_model(model_id, used_names) ==
    LET base == ProfilePrefix \o "-" \o Slug(model_id)
    IN  IF base \in used_names THEN FreeName(base, 2, used_names) ELSE base

RECURSIVE ProfilesLoop(_, _, _, _)
ProfilesLoop(ids, provider_id, used_names, profiles) ==
    IF ids = <<>> THEN profiles
    ELSE LET profile_name == codex_profile_name_for_model(ids[1], used_names)
             entry == Obj([k \in {"model", "model_provider"} |->
                             IF k = "model" THEN Str(ids[1]) ELSE Str(provider_id)])
         IN  ProfilesLoop(Tail(ids), provider_id, used_names \cup {profile_name},
                          Put(profiles, profile_name, entry))

\* A faulty generate_codex_profiles that takes the ids as they come
generate_codex_profiles_in_order(model_ids, provider_id) ==
    ProfilesLoop(model_ids, provider_id, {}, Obj(EmptyMap))

\* generate_codex_profiles(model_ids, provider_id); model_ids a sequence
generate_codex_profiles(model_ids, provider_id) ==
    ProfilesLoop(SortedSeq({model_ids[i] : i \in 1..Len(model_ids)}),
                 provider_id, {}, Obj(EmptyMap))

\* A faulty selection that does not look at the type
KeptAnyType(models) ==
    LET Keep(m) == Truthy(get_model_id(m))
    IN  SelectSeq(models, Keep)

\* The descriptors a generator keeps: type llm and a truthy id
Kept(models) ==
    LET Keep(m) == IsLlm(m) /\ Truthy(get_model_id(m))
    IN  SelectSeq(models, Keep)

\* config[model_id] = ... in a loop: the last descriptor with that id wins
LastWithId(kept, id) ==
    kept[CHOOSE i \in 1..Len(kept) :
            /\ get_model_id(kept[i]).s = id
            /\ \A j \in (i + 1)..Len(kept) : get_model_id(kept[j]).s # id]

KeptIds(kept) == {get_model_id(kept[i]).s : i \in 1..Len(kept)}

CopilotEntry(model, openai_url) ==
    LET max_context == Get(model, "max_context_length", Num(DefaultContext))
    IN  Obj([k \in {"name", "url", "toolCalling", "vision", "thinking",
                    "maxInputTokens", "maxOutputTokens", "requiresAPIKey"} |->
            CASE k = "name" -> get_model_id(model)
              [] k = "url" -> Str(openai_url)
              [] k = "toolCalling" -> Bool(model_supports_tool_calling(model))
              [] k = "vision" -> Bool(model_supports_vision(model))
              [] k = "thinking" -> Bool(TRUE)
              [] k = "maxInputTokens" -> max_context
              [] k = "maxOutputTokens" -> max_context
              [] k = "requiresAPIKey" -> Bool(FALSE)])

\* generate_copilot_config, given the fetched model list
generate_copilot_config(fetched, openai_url, min_context, tools_filter, vision_filter) ==
    LET kept == Kept(filter_models(fetched, min_context, tools_filter, vision_filter))
    IN  IF kept = <<>> THEN Raise("ValueError")
        ELSE Ok(Obj([id \in KeptIds(kept) |->
                        CopilotEntry(LastWithId(kept, id), openai_url)]))

Modalities(has_vision) ==
    Obj([k \in {"input", "output"} |->
            IF k = "input" /\ has_vision THEN Arr(<<Str("text"), Str("image")>>)
            ELSE Arr(<<Str("text")>>)])

OpencodeEntry(model) ==
    LET max_context == Get(model, "max_context_length", Num(DefaultContext))
    IN  Obj([k \in {"name", "limit", "modalities"} |->
            CASE k = "name" -> get_model_id(model)
              [] k = "limit" -> Obj([l \in {"context", "output"} |-> max_context])
              [] k = "modalities" -> Modalities(model_supports_vision(model))])

OpencodeProviderId == "lmstudio"

ProviderName == "LM Studio (local)"

\* generate_opencode_provider: the provider record (the id is OpencodeProviderId)
generate_opencode_provider(fetched, base_url, min_context, tools_filter, vision_filter) ==
    LET kept == Kept(filter_models(fetched, min_context, tools_filter, vision_filter))
    IN  IF kept = <<>> THEN Raise("ValueError")
        ELSE Ok(Obj([k \in {"npm", "name", "options", "models"} |->
                CASE k = "npm" -> Str("@ai-sdk/openai-compatible")
                  [] k = "name" -> Str(ProviderName)
                  [] k = "options" ->
                        Obj([o \in {"baseURL"} |-> Str(normalize_openai_base_url(base_url))])
                  [] k = "models" ->
                        Obj([id \in KeptIds(kept) |-> OpencodeEntry(LastWithId(kept, id))])]))

PiEntry(model) ==
    LET max_context == Get(model, "max_context_length", Num(DefaultContext))
    IN  Obj([k \in {"id", "name", "input", "contextWindow", "maxTokens"} |->
            CASE k = "id" -> get_model_id(model)
              [] k = "name" -> get_model_id(model)
              [] k = "input" -> IF model_supports_vision(model)
                                THEN Arr(<<Str("text"), Str("image")>>)
                                ELSE Arr(<<Str("text")>>)
              [] k = "contextWindow" -> max_context
              [] k = "maxTokens" -> max_context])

\* sorted(config, key=id): a stable insertion sort
RECURSIVE InsertById(_, _)
InsertById(sorted, e) ==
    IF sorted = <<>> THEN <<e>>
    ELSE IF StrLess(e.f["id"].s, sorted[1].f["id"].s) THEN <<e>> \o sorted
    ELSE <<sorted[1]>> \o InsertById(Tail(sorted), e)

RECURSIVE SortById(_)
SortById(entries) ==
    IF entries = <<>> THEN <<>>
    ELSE InsertById(SortById(SubSeq(entries, 1, Len(entries) - 1)), entries[Len(entries)])

PiProviderId == "lmstudio"

\* A faulty generate_pi_provider that returns a provider without models
\* instead of raising
generate_pi_provider_lenient(fetched, base_url, min_context, tools_filter, vision_filter) ==
    LET kept == Kept(filter_models(fetched, min_context, tools_filter, vision_filter))
        config == [i \in 1..Len(kept) |-> PiEntry(kept[i])]
    IN  Ok(Obj([k \in {"baseUrl", "api", "apiKey", "models"} |->
                CASE k = "baseUrl" -> Str(normalize_openai_base_url(base_url))
                  [] k = "api" -> Str("openai-completions")
                  [] k = "apiKey" -> Str("lm-studio")
                  [] k = "models" -> Arr(SortById(config))]))

\* generate_pi_provider: the provider record (the id is PiProviderId)
generate_pi_provider(fetched, base_url, min_context, tools_filter, vision_filter) ==
    LET kept == Kept(filter_models(fetched, min_context, tools_filter, vision_filter))
        config == [i \in 1..Len(kept) |-> PiEntry(kept[i])]
    IN  IF kept = <<>> THEN Raise("ValueError")
        ELSE Ok(Obj([k \in {"baseUrl", "api", "apiKey", "models"} |->
                CASE k = "baseUrl" -> Str(normalize_openai_base_url(base_url))
                  [] k = "api" -> Str("openai-completions")
                  [] k = "apiKey" -> Str("lm-studio")
                  [] k = "models" -> Arr(SortById(config))]))

CodexProviderId == "lmstudio_local"

\* generate_codex_config
generate_codex_config(fetched, base_url, min_context, tools_filter, vision_filter) ==
    LET kept == Kept(filter_models(fetched, min_context, tools_filter, vision_filter))
        llm_ids == [i \in 1..Len(kept) |-> get_model_id(kept[i]).s]
        provider == Obj([k \in {"name", "base_url", "wire_api"} |->
                        CASE k = "name" -> Str(ProviderName)
                          [] k = "base_url" -> Str(normalize_openai_base_url(base_url))
                          [] k = "wire_api" -> Str("responses")])
    IN  IF kept = <<>> THEN Raise("ValueError")
        ELSE Ok(Obj([k \in {"model_providers", "profiles"} |->
                IF k = "model_providers"
                THEN Obj([p \in {CodexProviderId} |-> provider])
                ELSE generate_codex_profiles(llm_ids, CodexProviderId)]))

\* ------------------------------------------------------------------------
\* Order of what the generators build.  A dict keeps its keys in the order
\* they were inserted, and the serializers print them in that order; the
\* sequences below are the orders the generators produce.
\* ------------------------------------------------------------------------
\* OrderedDict(sorted(v.items(), key=lambda item: item[0]))
CopilotEntryKeys ==
    SortedSeq({"name", "url", "toolCalling", "vision", "thinking",
               "maxInputTokens", "maxOutputTokens", "requiresAPIKey"})

\* config[model_id] = {"name": ..., "limit": ..., "modalities": ...}
OpencodeEntryKeys == <<"name", "limit", "modalities">>

OpencodeLimitKeys == <<"context", "output">>

ModalitiesKeys == <<"input", "output">>

\* provider = {"npm": ..., "name": ..., "options": ..., "models": ...}
OpencodeProviderKeys == <<"npm", "name", "options", "models">>

OpencodeOptionsKeys == <<"baseURL">>

PiEntryKeys == <<"id", "name", "input", "contextWindow", "maxTokens">>

PiProviderKeys == <<"baseUrl", "api", "apiKey", "models">>

CodexProviderKeys == <<"name", "base_url", "wire_api">>

CodexProfileKeys == <<"model", "model_provider">>

CodexConfigKeys == <<"model_providers", "profiles">>

\* The key order of every kind of map generator g builds, outermost first
\* (the map from model id to entry is ModelOrder)
MapKeyOrders(g) ==
    CASE g = "copilot" -> <<CopilotEntryKeys>>
      [] g = "opencode" -> <<OpencodeProviderKeys, OpencodeOptionsKeys,
                             OpencodeEntryKeys, OpencodeLimitKeys, ModalitiesKeys>>
      [] g = "pi" -> <<PiProviderKeys, PiEntryKeys>>
      [] g = "codex" -> <<CodexConfigKeys, CodexProviderKeys, CodexProfileKeys>>

\* The model ids in the order generator g emits them: sorted(config.keys()),
\* sorted(config, key=id) and sorted(set(model_ids))
ModelOrder(g, fetched, min_context, tools_filter, vision_filter) ==
    LET kept == Kept(filter_models(fetched, min_context, tools_filter, vision_filter))
        ordered_models == SortById([i \in 1..Len(kept) |-> PiEntry(kept[i])])
    IN  IF g = "pi"
        THEN [i \in 1..Len(ordered_models) |-> ordered_models[i].f["id"].s]
        ELSE SortedSeq(KeptIds(kept))

\* ------------------------------------------------------------------------
\* File texts, parsers and serializers
\* ------------------------------------------------------------------------
DefaultIndent == 2

\* The empty string
EmptyText == [kind |-> "empty", value |-> Null, indent |-> DefaultIndent, canon |-> TRUE]

\* No file at the path
NoFile == [kind |-> "absent", value |-> Null, indent |-> DefaultIndent, canon |-> FALSE]

\* A text the parser rejects, whose first indented line has n leading blanks
InvalidText(n) == [kind |-> "invalid", value |-> Null, indent |-> n, canon |-> FALSE]

\* A hand-written text that parses to value
HandText(value, n) == [kind |-> "valid", value |-> value, indent |-> n, canon |-> FALSE]

Exists(file) == file.kind # "absent"

\* detect_indentation(content): the leading blanks of the first indented
\* line of the text, DefaultIndent when there is none
detect_indentation(content) == content.indent

Blanks == {" ", "\t"}

\* A faulty count of the leading whitespace that stops at a tab
RECURSIVE LeadingSpaces(_)
LeadingSpaces(line) ==
    IF line = "" THEN 0
    ELSE IF CharAt(line, 1) # " " THEN 0
    ELSE 1 + LeadingSpaces(Rest(line))

\* "for char in line: if char in (' ', '\t'): indent += char else: break"
RECURSIVE LeadingWhitespace(_)
LeadingWhitespace(line) ==
    IF line = "" THEN 0
    ELSE IF CharAt(line, 1) \notin Blanks THEN 0
    ELSE 1 + LeadingWhitespace(Rest(line))

\* The loop of detect_indentation over content.splitlines()
RECURSIVE DetectIndentation(_)
DetectIndentation(lines) ==
    IF lines = <<>> THEN DefaultIndent
    ELSE IF lines[1] # "" /\ CharAt(lines[1], 1) \in Blanks /\ LeadingWhitespace(lines[1]) > 0
         THEN LeadingWhitespace(lines[1])
    ELSE DetectIndentation(Tail(lines))

\* The text with these lines, none of which a parser accepts: the empty
\* string when there is no line
TextOfLines(lines) ==
    IF lines = <<>> THEN EmptyText ELSE InvalidText(DetectIndentation(lines))

NonEmptyContainer(x) == x.t \in {"obj", "arr"} /\ Truthy(x)

\* json.dumps(value, indent=n): the printed text has an indented line
\* (of n blanks) exactly when value is a non-empty object or array
json_dumps(value, n) ==
    [kind |-> "valid", value |-> value,
     indent |-> IF NonEmptyContainer(value) THEN n ELSE DefaultIndent,
     canon |-> TRUE]

\* json5.loads(text)
json5_loads(text) == IF text.kind = "valid" THEN Ok(text.value) ELSE Raise("ValueError")

\* tomllib.loads(text): the empty string is the empty table
tomllib_loads(text) ==
    CASE text.kind = "valid" -> Ok(text.value)
      [] text.kind = "empty" -> Ok(Obj(EmptyMap))
      [] OTHER -> Raise("TOMLDecodeError")

RECURSIVE HasNull(_)
HasNull(x) ==
    CASE x.t = "null" -> TRUE
      [] x.t = "obj" -> \E k \in DOMAIN x.f : HasNull(x.f[k])
      [] x.t = "arr" -> \E i \in 1..Len(x.a) : HasNull(x.a[i])
      [] OTHER -> FALSE

\* tomli_w.dumps(value): TOML has no null
tomli_w_dumps(value) ==
    IF HasNull(value) THEN Raise("TypeError")
    ELSE IF value = Obj(EmptyMap) THEN Ok(EmptyText)
    ELSE Ok([kind |-> "valid", value |-> value, indent |-> DefaultIndent, canon |-> TRUE])

\* ------------------------------------------------------------------------
\* files.py: the overlay each merger computes on the parsed document
\* ------------------------------------------------------------------------
CopilotKey == "github.copilot.chat.customOAIModels"

SchemaUrl == Str("https://opencode.ai/config.json")

\* "if not isinstance(x, dict): x = {}"
AsDict(x) == IF IsDict(x) THEN x ELSE Obj(EmptyMap)

\* update_settings_file: settings[CopilotKey] = config; item assignment on
\* a value that is not a dict raises TypeError
SettingsOverlay(settings, config) ==
    IF IsDict(settings) THEN Ok(Put(settings, CopilotKey, config)) ELSE Raise("TypeError")

\* A faulty merge of the provider record that starts from an empty record
OpencodeMergedProviderFresh(existing_provider, provider) ==
    Put(Put(Put(Put(Obj(EmptyMap),
        "npm", Get(provider, "npm", Null)),
        "name", Get(provider, "name", Null)),
        "options", Put(Obj(EmptyMap), "baseURL",
                       Get(Get(provider, "options", Obj(EmptyMap)), "baseURL", Null))),
        "models", Get(provider, "models", Obj(EmptyMap)))

OpencodeMergedProvider(existing_provider, provider) ==
    LET existing_options == AsDict(Get(existing_provider, "options", Obj(EmptyMap)))
        merged_options ==
            Put(existing_options, "baseURL",
                Get(Get(provider, "options", Obj(EmptyMap)), "baseURL", Null))
    IN  Put(Put(Put(Put(existing_provider,
            "npm", Get(provider, "npm", Null)),
            "name", Get(provider, "name", Null)),
            "options", merged_options),
            "models", Get(provider, "models", Obj(EmptyMap)))

\* A faulty update_opencode_file that starts from the empty document
\* whatever was parsed
OpencodeOverlayFresh(parsed, provider_id, provider) ==
    Ok(Put(Put(Obj(EmptyMap), "$schema", SchemaUrl), "provider",
           Put(Obj(EmptyMap), provider_id,
               OpencodeMergedProvider(Obj(EmptyMap), provider))))

\* update_opencode_file, from the isinstance check to the merged document
OpencodeOverlay(parsed, provider_id, provider) ==
    LET config == AsDict(parsed)
        with_schema == IF "$schema" \in DOMAIN config.f THEN config
                       ELSE Put(config, "$schema", SchemaUrl)
        providers == AsDict(Get(with_schema, "provider", Obj(EmptyMap)))
        existing_provider == AsDict(Get(providers, provider_id, Obj(EmptyMap)))
    IN  IF ~IsDict(Get(provider, "options", Obj(EmptyMap))) THEN Raise("AttributeError")
        ELSE Ok(Put(with_schema, "provider",
                    Put(providers, provider_id,
                        OpencodeMergedProvider(existing_provider, provider))))

\* A faulty merge of the provider record that keeps an "api" the existing
\* record already has
PiMergedProviderSoft(existing_provider, provider) ==
    Put(Put(Put(Put(existing_provider,
        "baseUrl", Get(provider, "baseUrl", Null)),
        "api", Get(existing_provider, "api", Get(provider, "api", Null))),
        "apiKey", Get(provider, "apiKey", Null)),
        "models", Get(provider, "models", Arr(<<>>)))

PiMergedProvider(existing_provider, provider) ==
    Put(Put(Put(Put(existing_provider,
        "baseUrl", Get(provider, "baseUrl", Null)),
        "api", Get(provider, "api", Null)),
        "apiKey", Get(provider, "apiKey", Null)),
        "models", Get(provider, "models", Arr(<<>>)))

\* update_pi_file, from the isinstance check to the merged document
PiOverlay(parsed, provider_id, provider) ==
    LET config == AsDict(parsed)
        providers == AsDict(Get(config, "providers", Obj(EmptyMap)))
        existing_provider == AsDict(Get(providers, provider_id, Obj(EmptyMap)))
    IN  Ok(Put(config, "providers",
               Put(providers, provider_id, PiMergedProvider(existing_provider, provider))))

CodexMergedProvider(existing_provider, provider_update) ==
    Put(Put(Put(existing_provider,
        "name", Get(provider_update, "name", Null)),
        "base_url", Get(provider_update, "base_url", Null)),
        "wire_api", Get(provider_update, "wire_api", Null))

\* The loop over providers_update.items()
CodexProviders(providers, providers_update) ==
    Obj([p \in (DOMAIN providers.f) \cup
               {q \in DOMAIN providers_update.f : IsDict(providers_update.f[q])} |->
            IF p \in DOMAIN providers_update.f /\ IsDict(providers_update.f[p])
            THEN CodexMergedProvider(AsDict(Get(providers, p, Obj(EmptyMap))),
                                     providers_update.f[p])
            ELSE providers.f[p]])

\* A faulty stale_profile_names without the model_provider guard
StaleProfileNamesAnyProvider(profiles, providers_update, profiles_update) ==
    {profile_name \in DOMAIN profiles.f :
        /\ IsDict(profiles.f[profile_name])
        /\ StartsWith(profile_name, ManagedPrefix)
        /\ profile_name \notin DOMAIN profiles_update.f}

\* stale_profile_names
StaleProfileNames(profiles, providers_update, profiles_update) ==
    {profile_name \in DOMAIN profiles.f :
        /\ IsDict(profiles.f[profile_name])
        /\ \E p \in DOMAIN providers_update.f :
              Get(profiles.f[profile_name], "model_provider", Null) = Str(p)
        /\ StartsWith(profile_name, ManagedPrefix)
        /\ profile_name \notin DOMAIN profiles_update.f}

CodexMergedProfile(existing_profile, profile_update) ==
    Put(Put(existing_profile,
        "model", Get(profile_update, "model", Null)),
        "model_provider", Get(profile_update, "model_provider", Null))

\* A faulty merge of the profiles that skips the pruning
CodexProfilesUnpruned(profiles, providers_update, profiles_update) ==
    Obj([n \in (DOMAIN profiles.f) \cup
                {q \in DOMAIN profiles_update.f : IsDict(profiles_update.f[q])} |->
        IF n \in DOMAIN profiles_update.f /\ IsDict(profiles_update.f[n])
        THEN CodexMergedProfile(AsDict(Get(profiles, n, Obj(EmptyMap))),
                                profiles_update.f[n])
        ELSE profiles.f[n]])

\* The pruning followed by the loop over profiles_update.items()
CodexProfiles(profiles, providers_update, profiles_update) ==
    LET pruned == Del(profiles, StaleProfileNames(profiles, providers_update, profiles_update))
    IN  Obj([n \in (DOMAIN pruned.f) \cup
                   {q \in DOMAIN profiles_update.f : IsDict(profiles_update.f[q])} |->
            IF n \in DOMAIN profiles_update.f /\ IsDict(profiles_update.f[n])
            THEN CodexMergedProfile(AsDict(Get(pruned, n, Obj(EmptyMap))),
                                    profiles_update.f[n])
            ELSE pruned.f[n]])

\* update_codex_file, from the isinstance check to the merged document
CodexOverlay(parsed, codex_config) ==
    LET merged == AsDict(parsed)
        providers == AsDict(Get(merged, "model_providers", Obj(EmptyMap)))
        providers_update == Get(codex_config, "model_providers", Obj(EmptyMap))
        profiles == AsDict(Get(merged, "profiles", Obj(EmptyMap)))
        profiles_update == AsDict(Get(codex_config, "profiles", Obj(EmptyMap)))
    IN  IF ~IsDict(providers_update) \/ ~Truthy(providers_update)
        THEN Raise("ValueError")
        ELSE Ok(Put(Put(merged,
                    "model_providers", CodexProviders(providers, providers_update)),
                    "profiles", CodexProfiles(profiles, providers_update, profiles_update)))

\* ------------------------------------------------------------------------
\* files.py: reading, merging and serializing, up to the confirm gate
\* ------------------------------------------------------------------------
\* A faulty read that forgets the raw text when the parser rejects it
ReadJsonDroppingText(file) ==
    [old_content |-> IF Exists(file) /\ json5_loads(file).ok THEN file ELSE EmptyText,
     parsed |-> IF Exists(file) /\ json5_loads(file).ok
                THEN json5_loads(file).val ELSE Obj(EmptyMap)]

\* JSON-family read: old_content is the raw text ("" when there is no
\* file), the document is {} when there is no file or it does not parse
ReadJson(file) ==
    [old_content |-> IF Exists(file) THEN file ELSE EmptyText,
     parsed |-> IF Exists(file) /\ json5_loads(file).ok
                THEN json5_loads(file).val ELSE Obj(EmptyMap)]

ReadToml(file) ==
    [old_content |-> IF Exists(file) THEN file ELSE EmptyText,
     parsed |-> IF Exists(file) /\ tomllib_loads(file).ok
                THEN tomllib_loads(file).val ELSE Obj(EmptyMap)]

\* indent = detect_indentation(old_content) if old_content else 2
IndentOf(old_content) ==
    IF old_content.kind # "empty" THEN detect_indentation(old_content) ELSE DefaultIndent

Merged(r, doc, text) ==
    Ok([old_content |-> r.old_content, parsed |-> r.parsed,
        merged |-> doc, new_content |-> text])

\* update_settings_file up to the call of confirm_fn
SettingsMerge(file, config) ==
    LET r == ReadJson(file)
        o == SettingsOverlay(r.parsed, config)
    IN  IF o.ok THEN Merged(r, o.val, json_dumps(o.val, IndentOf(r.old_content))) ELSE o

\* update_opencode_file up to the call of confirm_fn
OpencodeMerge(file, provider) ==
    LET r == ReadJson(file)
        o == OpencodeOverlay(r.parsed, OpencodeProviderId, provider)
    IN  IF o.ok THEN Merged(r, o.val, json_dumps(o.val, IndentOf(r.old_content))) ELSE o

\* update_pi_file up to the call of confirm_fn
PiMerge(file, provider) ==
    LET r == ReadJson(file)
        o == PiOverlay(r.parsed, PiProviderId, provider)
    IN  IF o.ok THEN Merged(r, o.val, json_dumps(o.val, IndentOf(r.old_content))) ELSE o

\* update_codex_file up to the call of confirm_fn
CodexMerge(file, codex_config) ==
    LET r == ReadToml(file)
        o == CodexOverlay(r.parsed, codex_config)
        t == tomli_w_dumps(o.val)
    IN  IF ~o.ok THEN o
        ELSE IF ~t.ok THEN t
        ELSE Merged(r, o.val, t.val)

\* ------------------------------------------------------------------------
\* utils.py: the diff/confirm gate
\* ------------------------------------------------------------------------
\* A faulty normalisation that lower-cases without trimming
LowerOnly(response) == Lower(response)

\* response.strip().lower()
StripLower(response) == Lower(RStrip(LStrip(response, " "), " "))

Affirmative == {"y", "yes"}

\* A faulty diff that compares what the two texts parse to
HasChangesByValue(old_content, new_content) == old_content.value # new_content.value

\* "changes" is not empty: ndiff over splitlines(keepends=True) yields a
\* "+" or "-" line exactly when the two texts are not the same string
HasChanges(old_content, new_content) == old_content # new_content

\* A faulty gate that asks the operator even when nothing changed
show_diff_and_confirm_always(old_content, new_content, response) ==
    [decision |-> IF StripLower(response) \in Affirmative THEN "apply" ELSE "cancel",
     prompted |-> TRUE]

\* show_diff_and_confirm(old_content, new_content, path) when the operator
\* would answer response: splitlines(keepends=True) loses nothing, so the
\* diff has no +/- line exactly when the two texts are the same string
show_diff_and_confirm(old_content, new_content, response) ==
    IF ~HasChanges(old_content, new_content)
    THEN [decision |-> "unchanged", prompted |-> FALSE]
    ELSE [decision |-> IF StripLower(response) \in Affirmative THEN "apply" ELSE "cancel",
          prompted |-> TRUE]

\* ------------------------------------------------------------------------
\* files.py: backup rotation
\* ------------------------------------------------------------------------
\* A faulty rotator that numbers the backup by how many the day has
BackupIndexCount(taken) == Cardinality(taken)

\* The index _create_backup stops at: it counts up from 0 while the backup
\* name of that index exists
BackupIndex(taken) ==
    CHOOSE i \in 0..Cardinality(taken) :
        i \notin taken /\ \A j \in 0..(i - 1) : j \in taken

\* The indices of the backups of one day
IndicesOn(bk, day) == {k[2] : k \in {kk \in DOMAIN bk : kk[1] = day}}

\* _create_backup(path): shutil.copy2(path, backup_path)
create_backup(bk, day, content) ==
    LET key == <<day, BackupIndex(IndicesOn(bk, day))>>
    IN  [k \in (DOMAIN bk) \cup {key} |-> IF k = key THEN content ELSE bk[k]]

\* A faulty order that overwrites the file before it is backed up
ApplyOrderWriteFirst(target) == <<"mkdir", "write", "backup">>

\* The order of the steps after an "apply" decision
ApplyOrder(target) ==
    IF target \in {"code", "code-insiders"}
    THEN <<"backup", "mkdir", "write">>
    ELSE <<"mkdir", "backup", "write">>

\* ------------------------------------------------------------------------
\* Inputs: catalogs, run options, operator responses, initial files
\* ------------------------------------------------------------------------
Caps(tools, vision) ==
    Obj([k \in {"trained_for_tool_use", "vision"} |->
            IF k = "vision" THEN Bool(vision) ELSE Bool(tools)])

\* An llm with a known context length that is trained for tool use
ModelA ==
    Obj([k \in {"key", "type", "max_context_length", "capabilities"} |->
        CASE k = "key" -> Str("a")
          [] k = "type" -> Str("llm")
          [] k = "max_context_length" -> Num(4096)
          [] k = "capabilities" -> Caps(TRUE, FALSE)])

\* A vision llm without a context length
ModelB ==
    Obj([k \in {"key", "type", "capabilities"} |->
        CASE k = "key" -> Str("B!")
          [] k = "type" -> Str("llm")
          [] k = "capabilities" -> Caps(FALSE, TRUE)])

ModelEmbedding ==
    Obj([k \in {"key", "type"} |->
        IF k = "key" THEN Str("e") ELSE Str("embedding")])

ModelNoKey == Obj([k \in {"type"} |-> Str("llm")])

Catalogs ==
    <<(<<ModelB, ModelEmbedding, ModelA>>), (<<ModelEmbedding, ModelNoKey>>)>>

\* What fetch_models returns or raises
FetchOutcomes ==
    <<Ok(Catalogs[1]), Ok(Catalogs[2]), Raise("ConnectionError")>>

DefaultOptions ==
    [base_url |-> "h", min_context |-> Null,
     tools_filter |-> "any", vision_filter |-> "any"]

\* --base-url and the filter options of one invocation
RunOptions ==
    {DefaultOptions,
     [base_url |-> "h/v1/", min_context |-> Null,
      tools_filter |-> "required", vision_filter |-> "any"]}

Responses == {"y", " YES", "", "no"}

Targets == <<"code", "code-insiders", "opencode", "pi", "codex">>

TargetSet == {Targets[i] : i \in 1..Len(Targets)}

Modes == TargetSet \cup {"all"}

Generators == {"copilot", "opencode", "pi", "codex"}

GeneratorOf(target) ==
    IF target \in {"code", "code-insiders"} THEN "copilot" ELSE target

\* Files the operator may have before the first run
UserSettings ==
    HandText(Obj([k \in {"editor.fontSize"} |-> Num(14)]), 4)

ArrayText == HandText(Arr(<<Num(1)>>), DefaultIndent)

UserOpencode ==
    HandText(Obj([k \in {"foo", "provider"} |->
        IF k = "foo" THEN Num(1)
        ELSE Obj([p \in {"lmstudio", "other"} |->
                IF p = "other" THEN Obj([f \in {"npm"} |-> Str("x")])
                ELSE Obj([f \in {"name", "timeout", "options", "models"} |->
                    CASE f = "name" -> Str("mine")
                      [] f = "timeout" -> Num(30)
                      [] f = "options" -> Obj([o \in {"apiKey"} |-> Str("k")])
                      [] f = "models" ->
                            Obj([mid \in {"old"} |-> Obj(EmptyMap)])])])]),
        DefaultIndent)

UserPi ==
    HandText(Obj([k \in {"foo", "providers"} |->
        IF k = "foo" THEN Num(1)
        ELSE Obj([p \in {"lmstudio"} |->
                Obj([f \in {"api", "compat", "models"} |->
                    CASE f = "api" -> Str("custom")
                      [] f = "compat" -> Bool(TRUE)
                      [] f = "models" -> Arr(<<Obj([i \in {"id"} |-> Str("old")])>>)])])]),
        4)

Profile(model, provider) ==
    Obj([f \in {"model", "model_provider"} |->
            IF f = "model" THEN Str(model) ELSE Str(provider)])

NameWork == "work"

NameStale == ManagedPrefix \o "old"

NameB == ManagedPrefix \o "b"

\* A Codex config with a top-level model_provider, a profile of the
\* operator's own ("work"), a profile generated for a model that is gone
\* ("lmstudio-old") and a profile with a generated name that the operator
\* pointed at another provider ("lmstudio-b")
UserCodex ==
    HandText(Obj([k \in {"model_provider", "model_providers", "profiles"} |->
        CASE k = "model_provider" -> Str("openai")
          [] k = "model_providers" ->
                Obj([p \in {CodexProviderId} |->
                        Obj([f \in {"name", "retries"} |->
                            IF f = "name" THEN Str("old name") ELSE Num(3)])])
          [] k = "profiles" ->
                Obj([n \in {NameWork, NameStale, NameB} |->
                    CASE n = NameWork -> Profile("g", CodexProviderId)
                      [] n = NameStale -> Profile("old", CodexProviderId)
                      [] n = NameB ->
                            Put(Profile("z", "openai"), "approval", Str("never"))])]),
        DefaultIndent)

Files(f1, f2, f3, f4, f5) ==
    [t \in TargetSet |->
        CASE t = "code" -> f1
          [] t = "code-insiders" -> f2
          [] t = "opencode" -> f3
          [] t = "pi" -> f4
          [] t = "codex" -> f5]

NoBackups == [k \in {} |-> NoFile]

\* A backup left by an earlier run of the tool, at index 1 of day 0 (the
\* operator deleted the one at index 0)
OldBackups == [k \in {<<0, 1>>} |-> UserSettings]

\* What the operator's machine looks like before the first run: nothing
\* installed; every tool installed with a hand-written config; configs
\* that are not objects or do not parse
Scenarios ==
    <<[fs |-> Files(NoFile, NoFile, NoFile, NoFile, NoFile),
      dirs |-> [t \in TargetSet |-> t # "opencode"],
      backups |-> [t \in TargetSet |-> NoBackups]],
     [fs |-> Files(UserSettings, UserSettings, UserOpencode, UserPi, UserCodex),
      dirs |-> [t \in TargetSet |-> TRUE],
      backups |-> [t \in TargetSet |-> IF t = "code" THEN OldBackups ELSE NoBackups]],
     [fs |-> Files(ArrayText, UserSettings, ArrayText, ArrayText, InvalidText(4)),
      dirs |-> [t \in TargetSet |-> TRUE],
      backups |-> [t \in TargetSet |-> NoBackups]],
     [fs |-> Files(InvalidText(4), NoFile, InvalidText(4), InvalidText(DefaultIndent),
                   EmptyText),
      dirs |-> [t \in TargetSet |-> TRUE],
      backups |-> [t \in TargetSet |-> NoBackups]]>>

\* ------------------------------------------------------------------------
\* Bounds
\* ------------------------------------------------------------------------
\* Invocations of main() in one behaviour
MaxRuns == 2

\* The last day (days are 0..MaxDay)
MaxDay == 1

\* ------------------------------------------------------------------------
\* State
\* ------------------------------------------------------------------------
VARIABLES
    fs,          \* target -> the text of the file at its path, or NoFile
    dirs,        \* target -> the parent directory of the path exists
    backups,     \* target -> (<<day, index>> -> text) the backup files
    today,       \* the day datetime.now() reports
    pc,          \* where main() is: idle, loop, generate, merge, gate, apply, done
    mode,        \* --settings: a target or "all"
    opts,        \* the options of this invocation
    upstream,    \* which of FetchOutcomes fetch_models yields during this invocation
    idx,         \* all-targets mode: position in the targets list
    target,      \* the target being processed
    cache,       \* generator -> its payload in this invocation, Null before
    applied,     \* main()'s applied counter
    skipped,     \* main()'s skipped counter
    m,           \* the merger's texts: old_content and new_content
    decision,    \* what confirm_fn returned to the merger
    step,        \* position in ApplyOrder after an "apply"
    exit_code,   \* the exit status of the finished invocation
    err,         \* the exception that ended the invocation, "none" otherwise
    runs,        \* invocations started
    attempted,   \* history: targets whose loop body was entered
    fetches,     \* history: generator -> calls of it in this invocation
    prompted,    \* history: the gate asked the operator
    log,         \* history: what the current merger call did, in order
    before,      \* history: the target's file, backups and directory when its merger was reached
    appliedOn,   \* history: target -> day -> writes over an existing file since Init
    scenario,    \* history: which of Scenarios the behaviour started in
    written,     \* history: target -> the payload of the last write to it, Null before
    input,       \* the arguments of a function applied on its own, NoInput in a run of main()
    out          \* the function applied to input and what it returned, NoOut before

vars == <<fs, dirs, backups, today, pc, mode, opts, upstream, idx, target, cache, applied,
          skipped, m, decision, step, exit_code, err, runs, attempted, fetches,
          prompted, log, before, appliedOn, scenario, written, input, out>>

NoMerge == [old_content |-> EmptyText, new_content |-> EmptyText]

NoInput == [kind |-> "none"]

NoOut == [op |-> "none"]

\* What a merger call is about to work on: the file at the target's path,
\* its backups and whether its parent directory exists
BeforeOf(tgt) == [file |-> fs[tgt], backups |-> backups[tgt], dir |-> dirs[tgt]]

Days == 0..MaxDay

\* The files and the backup files before the first run
fs0 == Scenarios[scenario].fs

backups0 == Scenarios[scenario].backups

Init ==
    /\ \E i \in 1..Len(Scenarios) :
        /\ scenario = i
        /\ fs = Scenarios[i].fs
        /\ dirs = Scenarios[i].dirs
        /\ backups = Scenarios[i].backups
    /\ today = 0
    /\ pc = "idle"
    /\ mode = "all"
    /\ opts = DefaultOptions
    /\ upstream = 1
    /\ idx = 1
    /\ target = "code"
    /\ cache = [g \in Generators |-> Null]
    /\ applied = 0
    /\ skipped = 0
    /\ m = NoMerge
    /\ decision = "none"
    /\ step = 1
    /\ exit_code = 0
    /\ err = "none"
    /\ runs = 0
    /\ attempted = {}
    /\ fetches = [g \in Generators |-> 0]
    /\ prompted = FALSE
    /\ log = <<>>
    /\ before = BeforeOf("code")
    /\ appliedOn = [t \in TargetSet |-> [d \in Days |-> 0]]
    /\ written = [t \in TargetSet |-> Null]
    /\ input = NoInput
    /\ out = NoOut

\* ------------------------------------------------------------------------
\* cli.py: main()
\* ------------------------------------------------------------------------
\* The status of exit(1) in main()'s except clauses
ErrorStatus == 1

\* A new invocation of the tool: lmstudio-agent-config --settings <mode>
Start ==
    /\ pc = "idle"
    /\ runs < MaxRuns
    /\ \E md \in Modes, o \in RunOptions, up \in 1..Len(FetchOutcomes) :
        /\ mode' = md
        /\ opts' = o
        /\ upstream' = up
        /\ target' = IF md = "all" THEN Targets[1] ELSE md
        /\ pc' = IF md = "all" THEN "loop" ELSE "generate"
        /\ before' = BeforeOf(IF md = "all" THEN Targets[1] ELSE md)
    /\ runs' = runs + 1
    /\ UNCHANGED <<fs, dirs, backups, today, idx, cache, applied, skipped, m,
                   decision, step, exit_code, err, attempted, fetches, prompted,
                   log, appliedOn, scenario, written,
                   input, out>>

\* The process ends: nothing of main()'s locals outlives it, the files do.
\* The last invocation the model follows is left as it ended.
Exit ==
    /\ pc = "done"
    /\ runs < MaxRuns
    /\ pc' = "idle"
    /\ mode' = "all"
    /\ opts' = DefaultOptions
    /\ upstream' = 1
    /\ idx' = 1
    /\ target' = "code"
    /\ cache' = [g \in Generators |-> Null]
    /\ fetches' = [g \in Generators |-> 0]
    /\ applied' = 0
    /\ skipped' = 0
    /\ m' = NoMerge
    /\ decision' = "none"
    /\ step' = 1
    /\ exit_code' = 0
    /\ err' = "none"
    /\ attempted' = {}
    /\ prompted' = FALSE
    /\ log' = <<>>
    /\ before' = BeforeOf("code")
    /\ UNCHANGED <<fs, dirs, backups, today, runs, appliedOn, scenario, written,
                   input, out>>

\* Midnight passes between two invocations
NextDay ==
    /\ pc = "idle"
    /\ 0 < runs
    /\ runs < MaxRuns
    /\ today < MaxDay
    /\ today' = today + 1
    /\ UNCHANGED <<fs, dirs, backups, pc, mode, opts, upstream, idx, target,
                   cache, applied, skipped, m, decision, step, exit_code, err,
                   runs, attempted, fetches, prompted, log, before, appliedOn,
                   scenario, written,
                   input, out>>

\* all-targets loop: "if not path.exists(): skipped += 1; continue"
SkipMissing ==
    /\ pc = "loop"
    /\ idx <= Len(Targets)
    /\ ~Exists(fs[Targets[idx]])
    /\ skipped' = skipped + 1
    /\ idx' = idx + 1
    /\ UNCHANGED <<fs, dirs, backups, today, pc, mode, opts, upstream, target,
                   cache, applied, m, decision, step, exit_code, err, runs,
                   attempted, fetches, prompted, log, before, appliedOn, scenario,
                   written,
                   input, out>>

\* A faulty all-targets loop that may handle a target whose file is missing
EnterTargetAnyway ==
    /\ pc = "loop"
    /\ idx <= Len(Targets)
    /\ target' = Targets[idx]
    /\ attempted' = attempted \cup {Targets[idx]}
    /\ pc' = "generate"
    /\ m' = NoMerge
    /\ decision' = "none"
    /\ prompted' = FALSE
    /\ log' = <<>>
    /\ before' = BeforeOf(Targets[idx])
    /\ UNCHANGED <<fs, dirs, backups, today, mode, opts, upstream, idx, cache,
                   applied, skipped, step, exit_code, err, runs, fetches,
                   appliedOn, scenario, written,
                   input, out>>

\* all-targets loop: the file exists, the loop body handles the target
EnterTarget ==
    /\ pc = "loop"
    /\ idx <= Len(Targets)
    /\ Exists(fs[Targets[idx]])
    /\ target' = Targets[idx]
    /\ attempted' = attempted \cup {Targets[idx]}
    /\ pc' = "generate"
    /\ m' = NoMerge
    /\ decision' = "none"
    /\ prompted' = FALSE
    /\ log' = <<>>
    /\ before' = BeforeOf(Targets[idx])
    /\ UNCHANGED <<fs, dirs, backups, today, mode, opts, upstream, idx, cache,
                   applied, skipped, step, exit_code, err, runs, fetches,
                   appliedOn, scenario, written,
                   input, out>>

\* all-targets loop: the list is exhausted, main() prints its summary
FinishAll ==
    /\ pc = "loop"
    /\ idx > Len(Targets)
    /\ pc' = "done"
    /\ exit_code' = 0
    /\ UNCHANGED <<fs, dirs, backups, today, mode, opts, upstream, idx, target,
                   cache, applied, skipped, m, decision, step, err, runs,
                   attempted, fetches, prompted, log, before, appliedOn, scenario,
                   written,
                   input, out>>

\* The generator of a target applied to what fetch_models returned
Generate(g, fetched, o) ==
    CASE g = "copilot" ->
            generate_copilot_config(fetched, o.base_url, o.min_context,
                                    o.tools_filter, o.vision_filter)
      [] g = "opencode" ->
            generate_opencode_provider(fetched, o.base_url, o.min_context,
                                       o.tools_filter, o.vision_filter)
      [] g = "pi" ->
            generate_pi_provider(fetched, o.base_url, o.min_context,
                                 o.tools_filter, o.vision_filter)
      [] g = "codex" ->
            generate_codex_config(fetched, o.base_url, o.min_context,
                                  o.tools_filter, o.vision_filter)

\* A faulty all-targets loop that calls the generator for every target
NeedsGenerateAlways == TRUE

\* The generator is to be called: always in single-target mode, in
\* all-targets mode "if <payload> is None"
NeedsGenerate == IF mode = "all" THEN cache[GeneratorOf(target)] = Null ELSE TRUE

\* What the generator call yields: fetch_models' exception, the
\* generator's own, or the payload
GenResult ==
    IF FetchOutcomes[upstream].ok
    THEN Generate(GeneratorOf(target), FetchOutcomes[upstream].val, opts)
    ELSE FetchOutcomes[upstream]

\* The generator fetches the model list and returns a payload
GenerateOk ==
    /\ pc = "generate"
    /\ NeedsGenerate
    /\ LET result == GenResult
       IN  /\ result.ok
           /\ cache' = [cache EXCEPT ![GeneratorOf(target)] = result.val]
    /\ fetches' = [fetches EXCEPT ![GeneratorOf(target)] = @ + 1]
    /\ pc' = "merge"
    /\ UNCHANGED <<fs, dirs, backups, today, mode, opts, upstream, idx, target,
                   applied, skipped, m, decision, step, exit_code, err, runs,
                   attempted, prompted, log, before, appliedOn, scenario,
                   written,
                   input, out>>

\* fetch_models or the generator raises: main()'s except clauses print the
\* error and exit(1)
GenerateFails ==
    /\ pc = "generate"
    /\ NeedsGenerate
    /\ LET result == GenResult
       IN  /\ ~result.ok
           /\ err' = result.err
    /\ fetches' = [fetches EXCEPT ![GeneratorOf(target)] = @ + 1]
    /\ exit_code' = ErrorStatus
    /\ pc' = "done"
    /\ UNCHANGED <<fs, dirs, backups, today, mode, opts, upstream, idx, target,
                   cache, applied, skipped, m, decision, step, runs, attempted,
                   prompted, log, before, appliedOn, scenario, written,
                   input, out>>

\* all-targets mode: the payload of an earlier target is reused
ReusePayload ==
    /\ pc = "generate"
    /\ ~NeedsGenerate
    /\ pc' = "merge"
    /\ UNCHANGED <<fs, dirs, backups, today, mode, opts, upstream, idx, target,
                   cache, applied, skipped, m, decision, step, exit_code, err,
                   runs, attempted, fetches, prompted, log, before, appliedOn,
                   scenario, written,
                   input, out>>

\* ------------------------------------------------------------------------
\* files.py: the mergers as main() calls them
\* ------------------------------------------------------------------------
\* The merger of the target, up to the call of confirm_fn
MergeFor(tgt, file, payload) ==
    CASE tgt \in {"code", "code-insiders"} -> SettingsMerge(file, payload)
      [] tgt = "opencode" -> OpencodeMerge(file, payload)
      [] tgt = "pi" -> PiMerge(file, payload)
      [] tgt = "codex" -> CodexMerge(file, payload)

\* The merger reads the file, merges the payload and serializes
Merge ==
    /\ pc = "merge"
    /\ LET result == MergeFor(target, fs[target], cache[GeneratorOf(target)])
       IN  /\ result.ok
           /\ m' = [old_content |-> result.val.old_content,
                    new_content |-> result.val.new_content]
    /\ pc' = "gate"
    /\ log' = <<>>
    /\ prompted' = FALSE
    /\ decision' = "none"
    /\ UNCHANGED <<fs, dirs, backups, today, mode, opts, upstream, idx, target,
                   cache, applied, skipped, step, exit_code, err, runs,
                   attempted, fetches, before, appliedOn, scenario, written,
                   input, out>>

\* The merger raises: main()'s "except Exception" prints it and exit(1)
MergeFails ==
    /\ pc = "merge"
    /\ LET result == MergeFor(target, fs[target], cache[GeneratorOf(target)])
       IN  /\ ~result.ok
           /\ err' = result.err
    /\ exit_code' = ErrorStatus
    /\ pc' = "done"
    /\ log' = <<>>
    /\ UNCHANGED <<fs, dirs, backups, today, mode, opts, upstream, idx, target,
                   cache, applied, skipped, m, decision, step, runs, attempted,
                   fetches, prompted, before, appliedOn, scenario, written,
                   input, out>>

\* The merger returns to main(): the next target, or the end of the run
Return ==
    /\ applied' = IF mode = "all" THEN applied + 1 ELSE applied
    /\ idx' = IF mode = "all" THEN idx + 1 ELSE idx
    /\ pc' = IF mode = "all" THEN "loop" ELSE "done"
    /\ exit_code' = 0

\* A faulty merger that returns to its caller after a "cancel"
AfterGateReturning(d) ==
    CASE d = "apply" -> "proceed"
      [] OTHER -> "return"

\* A faulty merger that goes on to write after a "cancel"
AfterGateLenient(d) ==
    CASE d = "unchanged" -> "return"
      [] OTHER -> "proceed"

\* What a merger does with confirm_fn's decision: "unchanged" returns,
\* "cancel" exits with status 0, anything else goes on to write
AfterGate(d) ==
    CASE d = "unchanged" -> "return"
      [] d = "cancel" -> "exit"
      [] OTHER -> "proceed"

Gate(response) == show_diff_and_confirm(m.old_content, m.new_content, response)

\* confirm_fn finds no changed line: the merger returns at once
GateReturn ==
    /\ pc = "gate"
    /\ \E response \in Responses :
        LET asked == Gate(response)
        IN  /\ AfterGate(asked.decision) = "return"
            /\ decision' = asked.decision
            /\ prompted' = asked.prompted
    /\ log' = Append(log, "gate")
    /\ Return
    /\ UNCHANGED <<fs, dirs, backups, today, mode, opts, upstream, target, cache,
                   skipped, m, step, err, runs, attempted, fetches, before,
                   appliedOn, scenario, written,
                   input, out>>

\* A faulty cancel branch that exits like the error paths
CancelStatusError == ErrorStatus

\* The status of sys.exit(0) in the cancel branch
CancelStatus == 0

\* The operator declines: "Operation cancelled by user", sys.exit(0);
\* SystemExit is not an Exception, main()'s except clauses let it through
GateExit ==
    /\ pc = "gate"
    /\ \E response \in Responses :
        LET asked == Gate(response)
        IN  /\ AfterGate(asked.decision) = "exit"
            /\ decision' = asked.decision
            /\ prompted' = asked.prompted
    /\ log' = Append(log, "gate")
    /\ exit_code' = CancelStatus
    /\ pc' = "done"
    /\ UNCHANGED <<fs, dirs, backups, today, mode, opts, upstream, idx, target,
                   cache, applied, skipped, m, step, err, runs, attempted, fetches,
                   before, appliedOn, scenario, written,
                   input, out>>

\* The operator accepts: the merger goes on to back up and write
GateProceed ==
    /\ pc = "gate"
    /\ \E response \in Responses :
        LET asked == Gate(response)
        IN  /\ AfterGate(asked.decision) = "proceed"
            /\ decision' = asked.decision
            /\ prompted' = asked.prompted
    /\ log' = Append(log, "gate")
    /\ step' = 1
    /\ pc' = "apply"
    /\ UNCHANGED <<fs, dirs, backups, today, mode, opts, upstream, idx, target,
                   cache, applied, skipped, m, exit_code, err, runs, attempted,
                   fetches, before, appliedOn, scenario, written,
                   input, out>>

\* _ensure_parent(path)
EnsureParent ==
    /\ pc = "apply"
    /\ ApplyOrder(target)[step] = "mkdir"
    /\ dirs' = [dirs EXCEPT ![target] = TRUE]
    /\ log' = IF dirs[target] THEN log ELSE Append(log, "mkdir")
    /\ step' = step + 1
    /\ UNCHANGED <<fs, backups, today, pc, mode, opts, upstream, idx, target,
                   cache, applied, skipped, m, decision, exit_code, err, runs,
                   attempted, fetches, prompted, before, appliedOn, scenario,
                   written,
                   input, out>>

\* "if path.exists(): _create_backup(path, ...)"
CreateBackup ==
    /\ pc = "apply"
    /\ ApplyOrder(target)[step] = "backup"
    /\ Exists(fs[target])
    /\ backups' = [backups EXCEPT ![target] = create_backup(@, today, fs[target])]
    /\ log' = Append(log, "backup")
    /\ step' = step + 1
    /\ UNCHANGED <<fs, dirs, today, pc, mode, opts, upstream, idx, target,
                   cache, applied, skipped, m, decision, exit_code, err, runs,
                   attempted, fetches, prompted, before, appliedOn, scenario,
                   written,
                   input, out>>

\* There is no file at the path: nothing is backed up
NoBackupNeeded ==
    /\ pc = "apply"
    /\ ApplyOrder(target)[step] = "backup"
    /\ ~Exists(fs[target])
    /\ step' = step + 1
    /\ UNCHANGED <<fs, dirs, backups, today, pc, mode, opts, upstream, idx,
                   target, cache, applied, skipped, m, decision, exit_code, err,
                   runs, attempted, fetches, prompted, log, before, appliedOn,
                   scenario, written,
                   input, out>>

\* open(path, "w").write(new_content), and the merger returns
WriteFile ==
    /\ pc = "apply"
    /\ ApplyOrder(target)[step] = "write"
    /\ fs' = [fs EXCEPT ![target] = m.new_content]
    /\ written' = [written EXCEPT ![target] = cache[GeneratorOf(target)]]
    /\ appliedOn' = IF Exists(fs[target])
                    THEN [appliedOn EXCEPT ![target][today] = @ + 1]
                    ELSE appliedOn
    /\ log' = Append(log, "write")
    /\ Return
    /\ UNCHANGED <<dirs, backups, today, mode, opts, upstream, target, cache,
                   skipped, m, decision, step, err, runs, attempted, fetches,
                   prompted, before, scenario,
                   input, out>>

Next ==
    \/ Start
    \/ Exit
    \/ NextDay
    \/ SkipMissing
    \/ EnterTarget
    \/ FinishAll
    \/ GenerateOk
    \/ GenerateFails
    \/ ReusePayload
    \/ Merge
    \/ MergeFails
    \/ GateReturn
    \/ GateExit
    \/ GateProceed
    \/ EnsureParent
    \/ CreateBackup
    \/ NoBackupNeeded
    \/ WriteFile

Spec == Init /\ [][Next]_vars

TypeOK ==
    /\ pc \in {"idle", "loop", "generate", "merge", "gate", "apply", "done"}
    /\ mode \in Modes
    /\ target \in TargetSet
    /\ decision \in {"none", "unchanged", "cancel", "apply"}
    /\ exit_code \in {0, 1}
    /\ runs \in 0..MaxRuns
    /\ today \in Days

\* ------------------------------------------------------------------------
\* The filter, the generators and the gate applied on their own
\* ------------------------------------------------------------------------
\* An llm whose max_context_length is there and null
ModelNullContext ==
    Obj([k \in {"key", "type", "max_context_length"} |->
        CASE k = "key" -> Str("n")
          [] k = "type" -> Str("llm")
          [] k = "max_context_length" -> Null])

\* An embedding model whose capabilities object reports tool use and vision
ModelEmbeddingCaps ==
    Obj([k \in {"key", "type", "max_context_length", "capabilities"} |->
        CASE k = "key" -> Str("ec")
          [] k = "type" -> Str("embedding")
          [] k = "max_context_length" -> Num(DefaultContext)
          [] k = "capabilities" -> Caps(TRUE, TRUE)])

\* An llm whose key is the empty string
ModelEmptyKey ==
    Obj([k \in {"key", "type"} |-> IF k = "key" THEN Str("") ELSE Str("llm")])

\* The descriptors a model list is drawn from
ModelPool ==
    <<ModelA, ModelB, ModelEmbedding, ModelNoKey, ModelNullContext,
      ModelEmbeddingCaps, ModelEmptyKey>>

\* The longest model list
MaxModels == 2

\* --min-context values: unset, the context of ModelA, the default context
MinContexts == <<Null, Num(4096), Num(DefaultContext)>>

FilterChoices == {"any", "required", "exclude"}

\* What the operator may type at the prompt
Answers ==
    {"y", "Y", "yes", " YES", "Yes ", " y ", "", " ", "n", "no", "yes!", "yy", "ye"}

\* Texts handed to the gate: the empty string, a hand-written file, the
\* same document as the serializer prints it at two indentations, another
\* document
GateTexts ==
    <<EmptyText, UserSettings, json_dumps(UserSettings.value, 4),
      json_dumps(UserSettings.value, DefaultIndent),
      json_dumps(Obj(CopilotKey :> Obj(EmptyMap)), DefaultIndent)>>

\* Model ids handed to codex_profile_name_for_model: ids with the same
\* slug, an id whose slug is another id's suffixed name, ids without a
\* slug character, runs of separators inside and at both ends
ProfileIds ==
    <<"My Model", "my-model", "MY  MODEL", "my model-2", "a", "A", "B!", "--",
      "", " a_b/c.", "model", "q4_K-M">>

\* Names that may be allocated already
UsedPool ==
    <<"lmstudio-my-model", "lmstudio-my-model-2", "lmstudio-my-model-3",
      "lmstudio-model", "lmstudio-a-2">>

\* Payloads handed to a merger directly: what the target's generator builds
\* for one model, and payloads no generator builds: the empty map, a payload
\* with only part of its keys, a key whose value is empty or not a map
MergerPayloads(tgt) ==
    LET generated == Generate(GeneratorOf(tgt), <<ModelA>>, DefaultOptions).val
    IN  CASE tgt \in {"code", "code-insiders"} -> <<generated, Obj(EmptyMap)>>
          [] tgt = "opencode" ->
                <<generated, Obj(EmptyMap),
                  Obj("models" :> Get(generated, "models", Null)),
                  Put(generated, "options", Str("x"))>>
          [] tgt = "pi" ->
                <<generated, Obj(EmptyMap), Obj("models" :> Get(generated, "models", Null))>>
          [] tgt = "codex" ->
                <<generated, Obj(EmptyMap),
                  Obj("profiles" :> Get(generated, "profiles", Null)),
                  Put(generated, "model_providers", Obj(EmptyMap)),
                  Put(generated, "model_providers", Str("x")),
                  Obj("model_providers" :> Get(generated, "model_providers", Null)),
                  Put(generated, "model_providers",
                      Obj(CodexProviderId :> Obj("name" :> Str(ProviderName))))>>

\* The file a merger handed a payload directly finds at its path
MergerFiles(tgt) == <<NoFile, Scenarios[2].fs[tgt], EmptyText>>

\* --base-url values: without and with the suffix, with trailing slashes,
\* the suffix alone, the suffix in other spellings and positions
Urls ==
    <<"", "/", "h", "h/", "h//", "h/v1", "h/v1/", "h/v1//", "/v1", "v1", "h/V1",
      "h/v1/v1", "h/v12", "h/v1/x", " h/v1 ">>

\* The --base-url values the generators are called with
BaseUrls == <<"h", "h/v1/">>

\* Lines of a file: unindented, indented by spaces, by a tab, by both,
\* empty, blank, and with blanks only at the end
IndentLines == <<"{", "  a", "\tb", "    c", " \t d", "", "   ", "e  ">>

\* The longest text, in lines
MaxLines == 3

\* The targets whose file is JSON
JsonTargets == {"code", "code-insiders", "opencode", "pi"}

\* Model ids handed to generate_codex_profiles: three ids with the slug
\* "my-model", an id whose slug is the suffixed name "my-model-2", an id
\* of its own, an id without a slug character
CodexIds == <<"My Model", "my model", "my-model", "my model-2", "a", "--">>

\* The longest list of ids
MaxIds == 3

\* The state of main() and of the filesystem, which these functions leave alone
mainVars ==
    <<fs, dirs, backups, today, pc, mode, opts, upstream, idx, target, cache,
      applied, skipped, m, decision, step, exit_code, err, runs, attempted,
      fetches, prompted, log, before, appliedOn, scenario, written>>

InitPure ==
    /\ scenario = 1
    /\ fs = Scenarios[1].fs
    /\ dirs = Scenarios[1].dirs
    /\ backups = Scenarios[1].backups
    /\ today = 0
    /\ pc = "idle"
    /\ mode = "all"
    /\ opts = DefaultOptions
    /\ upstream = 1
    /\ idx = 1
    /\ target = "code"
    /\ cache = [g \in Generators |-> Null]
    /\ applied = 0
    /\ skipped = 0
    /\ m = NoMerge
    /\ decision = "none"
    /\ step = 1
    /\ exit_code = 0
    /\ err = "none"
    /\ runs = 0
    /\ attempted = {}
    /\ fetches = [g \in Generators |-> 0]
    /\ prompted = FALSE
    /\ log = <<>>
    /\ before = BeforeOf("code")
    /\ appliedOn = [t \in TargetSet |-> [d \in Days |-> 0]]
    /\ written = [t \in TargetSet |-> Null]
    /\ out = NoOut
    /\ \/ \E n \in 0..MaxModels :
            \E pick \in [1..n -> 1..Len(ModelPool)],
               c \in 1..Len(MinContexts), tf \in FilterChoices, vf \in FilterChoices,
               b \in 1..Len(BaseUrls) :
                input = [kind |-> "models",
                         models |-> [i \in 1..n |-> ModelPool[pick[i]]],
                         base_url |-> BaseUrls[b],
                         min_context |-> MinContexts[c],
                         tools_filter |-> tf,
                         vision_filter |-> vf]
       \/ \E i \in 1..Len(GateTexts), j \in 1..Len(GateTexts), response \in Answers :
                input = [kind |-> "gate",
                         old_content |-> GateTexts[i],
                         new_content |-> GateTexts[j],
                         response |-> response]
       \/ \E i \in 1..Len(ProfileIds), used \in SUBSET (1..Len(UsedPool)) :
                input = [kind |-> "name",
                         model_id |-> ProfileIds[i],
                         used_names |-> {UsedPool[u] : u \in used}]
       \/ \E i \in 1..Len(Urls) : input = [kind |-> "url", url |-> Urls[i]]
       \/ \E n \in 0..MaxIds :
            \E pick \in [1..n -> 1..Len(CodexIds)], provider_id \in {CodexProviderId, "p"} :
                input = [kind |-> "ids",
                         model_ids |-> [i \in 1..n |-> CodexIds[pick[i]]],
                         provider_id |-> provider_id]
       \/ \E n \in 0..MaxLines :
            \E pick \in [1..n -> 1..Len(IndentLines)] :
                input = [kind |-> "text", lines |-> [i \in 1..n |-> IndentLines[pick[i]]]]
       \/ \E tgt \in TargetSet :
            \E i \in 1..Len(MergerFiles(tgt)), j \in 1..Len(MergerPayloads(tgt)) :
                input = [kind |-> "merge",
                         target |-> tgt,
                         file |-> MergerFiles(tgt)[i],
                         payload |-> MergerPayloads(tgt)[j]]

\* filter_models(models, min_context, tools_filter, vision_filter)
ApplyFilter ==
    /\ input.kind = "models"
    /\ out' = [op |-> "filter_models",
               val |-> filter_models(input.models, input.min_context,
                                     input.tools_filter, input.vision_filter)]
    /\ UNCHANGED <<input, mainVars>>

\* A generator called with a fetch_models_fn that returns input.models
ApplyGenerator ==
    /\ input.kind = "models"
    /\ \E g \in Generators :
          out' = [op |-> g, val |-> Generate(g, input.models, input)]
    /\ UNCHANGED <<input, mainVars>>

\* show_diff_and_confirm(old_content, new_content, path) with an input_fn
\* that returns input.response
ApplyConfirm ==
    /\ input.kind = "gate"
    /\ out' = [op |-> "confirm",
               val |-> show_diff_and_confirm(input.old_content, input.new_content,
                                             input.response)]
    /\ UNCHANGED <<input, mainVars>>

\* codex_profile_name_for_model(model_id, used_names): the name returned
\* and the caller's set after used_names.add(name)
ApplyProfileName ==
    /\ input.kind = "name"
    /\ LET name == codex_profile_name_for_model(input.model_id, input.used_names)
       IN  out' = [op |-> "profile_name", val |-> name,
                   used_names |-> input.used_names \cup {name}]
    /\ UNCHANGED <<input, mainVars>>

\* The merger of input.target called with input.payload on input.file, up
\* to its call of confirm_fn
ApplyMerger ==
    /\ input.kind = "merge"
    /\ out' = [op |-> "merge", val |-> MergeFor(input.target, input.file, input.payload)]
    /\ UNCHANGED <<input, mainVars>>

\* normalize_openai_base_url(url), and the same applied to what it returned
ApplyNormalize ==
    /\ input.kind = "url"
    /\ LET normalized == normalize_openai_base_url(input.url)
       IN  out' = [op |-> "normalize", val |-> normalized,
                   again |-> normalize_openai_base_url(normalized)]
    /\ UNCHANGED <<input, mainVars>>

\* detect_indentation on the text with input.lines, and what each JSON
\* merger serializes when that text is the existing file
ApplyDetect ==
    /\ input.kind = "text"
    /\ LET content == TextOfLines(input.lines)
       IN  out' = [op |-> "detect_indentation",
                   val |-> detect_indentation(content),
                   new_content |->
                       [t \in JsonTargets |->
                           MergeFor(t, content, MergerPayloads(t)[1]).val.new_content]]
    /\ UNCHANGED <<input, mainVars>>

\* generate_codex_profiles(model_ids, provider_id), and the same called
\* with the list reversed and followed by the list itself
ApplyProfiles ==
    /\ input.kind = "ids"
    /\ LET n == Len(input.model_ids)
           reversed == [i \in 1..n |-> input.model_ids[n + 1 - i]]
       IN  out' = [op |-> "generate_codex_profiles",
                   val |-> generate_codex_profiles(input.model_ids, input.provider_id),
                   other |-> generate_codex_profiles(reversed \o input.model_ids,
                                                     input.provider_id)]
    /\ UNCHANGED <<input, mainVars>>

NextPure ==
    \/ ApplyFilter
    \/ ApplyGenerator
    \/ ApplyConfirm
    \/ ApplyProfileName
    \/ ApplyMerger
    \/ ApplyNormalize
    \/ ApplyDetect
    \/ ApplyProfiles

SpecPure == InitPure /\ [][NextPure]_vars

\* ------------------------------------------------------------------------
\* Properties
\* ------------------------------------------------------------------------
\* The top-level keys a merger assigns in the document
OwnedKeys(tgt) ==
    CASE tgt \in {"code", "code-insiders"} -> {CopilotKey}
      [] tgt = "opencode" -> {"$schema", "provider"}
      [] tgt = "pi" -> {"providers"}
      [] tgt = "codex" -> {"model_providers", "profiles"}

\* The parser a merger reads its file with
Loads(tgt, text) == IF tgt = "codex" THEN tomllib_loads(text) ELSE json5_loads(text)

\* The document the current merger call read: what the parser made of
\* old_content, an empty object when it raised
ParsedDoc ==
    LET loaded == Loads(target, m.old_content)
    IN  IF loaded.ok THEN loaded.val ELSE Obj(EmptyMap)

\* The document the current merger call serialized
MergedDoc == m.new_content.value

\* The document the new text of the current merger call parses to
NewDoc == Loads(target, m.new_content).val

\* The payload handed to the current merger call
Payload == cache[GeneratorOf(target)]

\* The current merger call has left this target's file, backups and
\* parent directory as they were when main() reached the target
TargetUntouched ==
    /\ fs[target] = before.file
    /\ backups[target] = before.backups
    /\ dirs[target] = before.dir

\* The position of an entry in the log of the current merger call
LogPos(x) == CHOOSE i \in 1..Len(log) : log[i] = x

Logged(x) == \E i \in 1..Len(log) : log[i] = x

\* The backups of the target made by the current merger call
NewBackups == (DOMAIN backups[target]) \ (DOMAIN before.backups)

\* C1: in all-targets mode an error raised while generating or merging one
\* target is caught for that target, and every remaining target whose file
\* exists is still attempted: a run that saw an error has entered the loop
\* body of every installed target.
C1_RemainingTargetsAttempted ==
    (pc = "done" /\ mode = "all" /\ err # "none") =>
        \A t \in TargetSet : Exists(fs[t]) => t \in attempted

\* C2: for each of the four mergers, when the existing file parses to an
\* object, every top-level key the merger does not own is in the new
\* document with its value unchanged; and after any sequence of runs the
\* file still holds every unowned top-level key it had before the first.
C2_UnownedKeysPreserved ==
    /\ (pc \in {"gate", "apply"} /\ IsDict(ParsedDoc)) =>
          \A k \in (DOMAIN ParsedDoc.f) \ OwnedKeys(target) :
              k \in DOMAIN NewDoc.f /\ NewDoc.f[k] = ParsedDoc.f[k]
    /\ \A t \in TargetSet :
          (fs0[t].kind = "valid" /\ IsDict(fs0[t].value)) =>
              /\ Loads(t, fs[t]).ok
              /\ \A k \in (DOMAIN fs0[t].value.f) \ OwnedKeys(t) :
                    /\ k \in DOMAIN Loads(t, fs[t]).val.f
                    /\ Loads(t, fs[t]).val.f[k] = fs0[t].value.f[k]

C2_Witness ==
    /\ pc = "apply"
    /\ runs = 2
    /\ target \in {"opencode", "codex"}
    /\ fs[target] # fs0[target]
    /\ (DOMAIN ParsedDoc.f) \ OwnedKeys(target) # {}
    /\ IsDict(fs0[target].value)
    /\ (DOMAIN fs0[target].value.f) \ OwnedKeys(target) # {}

\* The profiles table of a Codex document, {} when it has none
ProfilesOf(doc) == AsDict(Get(AsDict(doc), "profiles", Obj(EmptyMap)))

\* The provider ids and the profile names of the payload of this run
ManagedProviders == DOMAIN Get(Payload, "model_providers", Obj(EmptyMap)).f

GeneratedNames == DOMAIN Get(Payload, "profiles", Obj(EmptyMap)).f

\* The profile has the managed prefix and a managed provider owns it
ManagedProfile(profiles, n) ==
    /\ StartsWith(n, ManagedPrefix)
    /\ \E p \in ManagedProviders : GetIfDict(profiles.f[n], "model_provider") = Str(p)

\* C3 as stated: update_codex_file neither deletes nor changes any field of
\* an existing profile whose name lacks the prefix "lmstudio-" or whose
\* model_provider is not a provider id of the payload.
C3_UnmanagedProfilesUntouched ==
    (pc \in {"gate", "apply"} /\ target = "codex") =>
        \A n \in DOMAIN ProfilesOf(ParsedDoc).f :
            ~ManagedProfile(ProfilesOf(ParsedDoc), n) =>
                /\ n \in DOMAIN ProfilesOf(NewDoc).f
                /\ ProfilesOf(NewDoc).f[n] = ProfilesOf(ParsedDoc).f[n]

\* C3 amended: update_codex_file never deletes such a profile, and changes
\* no field of it unless its name is one of this run's generated profile
\* names; then model and model_provider take the generated values and every
\* other field stays.  Over any sequence of runs a profile whose name lacks
\* the prefix keeps the value it had before the first run.
C3_UnmanagedProfilesKept ==
    /\ (pc \in {"gate", "apply"} /\ target = "codex") =>
          \A n \in DOMAIN ProfilesOf(ParsedDoc).f :
              ~ManagedProfile(ProfilesOf(ParsedDoc), n) =>
                  /\ n \in DOMAIN ProfilesOf(NewDoc).f
                  /\ n \notin GeneratedNames =>
                        ProfilesOf(NewDoc).f[n] = ProfilesOf(ParsedDoc).f[n]
                  /\ n \in GeneratedNames =>
                        /\ \A k \in {"model", "model_provider"} :
                              ProfilesOf(NewDoc).f[n].f[k] = Payload.f["profiles"].f[n].f[k]
                        /\ \A k \in (DOMAIN AsDict(ProfilesOf(ParsedDoc).f[n]).f)
                                        \ {"model", "model_provider"} :
                              /\ k \in DOMAIN ProfilesOf(NewDoc).f[n].f
                              /\ ProfilesOf(NewDoc).f[n].f[k] = ProfilesOf(ParsedDoc).f[n].f[k]
    /\ \A n \in DOMAIN ProfilesOf(fs0["codex"].value).f :
          ~StartsWith(n, ManagedPrefix) =>
              /\ n \in DOMAIN ProfilesOf(fs["codex"].value).f
              /\ ProfilesOf(fs["codex"].value).f[n] = ProfilesOf(fs0["codex"].value).f[n]

\* A hand-written profile with a generated name and an unmanaged provider
\* is overwritten, its other field kept
C3_Witness ==
    /\ pc = "apply"
    /\ target = "codex"
    /\ NameB \in DOMAIN ProfilesOf(ParsedDoc).f
    /\ ~ManagedProfile(ProfilesOf(ParsedDoc), NameB)
    /\ NameB \in GeneratedNames
    /\ ProfilesOf(NewDoc).f[NameB] # ProfilesOf(ParsedDoc).f[NameB]
    /\ ProfilesOf(NewDoc).f[NameB].f["approval"] = Str("never")
    /\ NameWork \in DOMAIN ProfilesOf(NewDoc).f

\* C4: after update_codex_file merges a payload no stale generated profile
\* remains: an existing profile with the prefix, a managed provider and a
\* name this run did not generate is absent from the new document, and the
\* prefixed profiles a managed provider owns are exactly this run's names.
C4_NoStaleProfile ==
    (pc \in {"gate", "apply"} /\ target = "codex") =>
        /\ \A n \in DOMAIN ProfilesOf(ParsedDoc).f :
              (ManagedProfile(ProfilesOf(ParsedDoc), n) /\ n \notin GeneratedNames) =>
                  n \notin DOMAIN ProfilesOf(NewDoc).f
        /\ {n \in DOMAIN ProfilesOf(NewDoc).f : ManagedProfile(ProfilesOf(NewDoc), n)}
              = GeneratedNames

C4_Witness ==
    /\ pc = "apply"
    /\ target = "codex"
    /\ NameStale \in DOMAIN ProfilesOf(ParsedDoc).f
    /\ NameStale \notin DOMAIN ProfilesOf(NewDoc).f
    /\ GeneratedNames # {}

\* C5: for every merger an existing file whose parsed top-level value is
\* not an object does not fail the run: the merge goes on to the gate with
\* the owned section overlaid on the empty document.
C5_NonObjectDoesNotFail ==
    (pc = "merge" /\ fs[target].kind = "valid" /\ ~IsDict(fs[target].value)) =>
        /\ MergeFor(target, fs[target], Payload).ok
        /\ MergeFor(target, fs[target], Payload).val.merged
              = MergeFor(target, NoFile, Payload).val.merged

\* C6: for every merger an existing file the parser rejects never aborts
\* the run: the merge starts from the empty document, the new document is
\* exactly the owned section(s), and the gate gets the raw text of the file
\* as the old content.
C6_InvalidSyntaxMergesFromEmpty ==
    /\ (pc = "merge" /\ fs[target].kind = "invalid") =>
          MergeFor(target, fs[target], Payload).ok
    /\ (pc \in {"gate", "apply"} /\ before.file.kind = "invalid") =>
          /\ m.old_content = before.file
          /\ ParsedDoc = Obj(EmptyMap)
          /\ MergedDoc = MergeFor(target, NoFile, Payload).val.merged
          /\ NewDoc =
                CASE target \in {"code", "code-insiders"} -> Obj(CopilotKey :> Payload)
                  [] target = "opencode" ->
                        Obj(("$schema" :> SchemaUrl)
                            @@ ("provider" :> Obj(OpencodeProviderId :> Payload)))
                  [] target = "pi" -> Obj("providers" :> Obj(PiProviderId :> Payload))
                  [] target = "codex" -> Payload

C6_Witness ==
    /\ pc = "apply"
    /\ m.old_content.kind = "invalid"
    /\ fs[target] = m.old_content
    /\ target = "pi"
    /\ mode = "all"

\* C7: a run changes the filesystem only after an "apply" decision: when
\* the gate returned "unchanged" or "cancel" the target file is what it was
\* before the run, no backup was made and no parent directory created; and
\* nothing is written to the target before the gate has returned.
C7_NoChangeWithoutApply ==
    /\ decision \in {"unchanged", "cancel"} => TargetUntouched
    /\ pc \in {"generate", "merge", "gate"} => TargetUntouched
    /\ (pc = "apply" \/ Logged("mkdir") \/ Logged("backup") \/ Logged("write")) =>
          decision = "apply" /\ log[1] = "gate"

\* The operator declines a first install whose directory is missing
C7_Witness ==
    /\ pc = "done"
    /\ decision = "cancel"
    /\ prompted
    /\ ~Exists(fs[target])
    /\ ~dirs[target]
    /\ m.new_content # m.old_content

\* C8: in an applied run over an existing file the backup is made after
\* the "apply" decision and before the file is overwritten, and it holds
\* the content the file had before the write; when there is no file, it is
\* created and no backup is made.
C8_BackupBetweenApplyAndWrite ==
    /\ Logged("backup") =>
          /\ decision = "apply"
          /\ LogPos("gate") < LogPos("backup")
          /\ Logged("write") => LogPos("backup") < LogPos("write")
          /\ Cardinality(NewBackups) = 1
          /\ \A k \in NewBackups : backups[target][k] = before.file
    /\ (Logged("write") /\ Exists(before.file)) =>
          /\ Logged("backup")
          /\ fs[target] = m.new_content
    /\ (Logged("write") /\ ~Exists(before.file)) =>
          /\ ~Logged("backup")
          /\ backups[target] = before.backups
          /\ Exists(fs[target])
    /\ (pc = "apply" /\ ~Logged("backup")) => fs[target] = before.file

C8_Witness ==
    /\ log = <<"gate", "backup", "write">>
    /\ target = "code"
    /\ Exists(before.file)
    /\ fs[target] # before.file
    /\ \E k \in NewBackups : backups[target][k] = before.file

\* C9: the rotator picks the smallest index i >= 0 whose backup name is
\* free that day, so making a backup adds one file and leaves every
\* existing backup as it was; n applied runs on one day over an existing
\* file, starting with no backups, leave the backups 0..n-1 of that day.
C9_SmallestFreeIndex ==
    /\ [][\A t \in TargetSet :
            backups'[t] # backups[t] =>
                \E i \in 0..Cardinality(DOMAIN backups[t]) :
                    /\ <<today, i>> \notin DOMAIN backups[t]
                    /\ \A j \in 0..(i - 1) : <<today, j>> \in DOMAIN backups[t]
                    /\ DOMAIN backups'[t] = (DOMAIN backups[t]) \cup {<<today, i>>}
                    /\ backups'[t][<<today, i>>] = fs[t]
                    /\ \A k \in DOMAIN backups[t] : backups'[t][k] = backups[t][k]]_vars
    /\ [](\A t \in TargetSet :
            (backups0[t] = NoBackups /\ ~(pc = "apply" /\ target = t)) =>
                \A d \in Days :
                    /\ IndicesOn(backups[t], d) = 0..(appliedOn[t][d] - 1)
                    /\ Cardinality({k \in DOMAIN backups[t] : k[1] = d}) = appliedOn[t][d])

\* Two applied runs on one day have left the backups 0 and 1 of that day
C9_Witness ==
    \E t \in TargetSet, d \in Days :
        /\ backups0[t] = NoBackups
        /\ appliedOn[t][d] = 2
        /\ IndicesOn(backups[t], d) = {0, 1}
        /\ backups[t][<<d, 0>>] # backups[t][<<d, 1>>]

\* C10: merging a payload into the file a previous applied run of the same
\* merger wrote with that payload yields the same text, so the gate returns
\* "unchanged" whatever the operator would answer, without prompting, and
\* the run writes nothing and makes no backup.
C10_MergeIdempotent ==
    /\ (pc = "gate" /\ written[target] # Null /\ written[target] = Payload) =>
          /\ m.new_content = m.old_content
          /\ MergedDoc = ParsedDoc
          /\ \A r \in Responses :
                Gate(r) = [decision |-> "unchanged", prompted |-> FALSE]
    /\ (pc \in {"gate", "apply"} /\ m.old_content.canon /\ MergedDoc = ParsedDoc) =>
          m.new_content = m.old_content
    /\ (pc \in {"loop", "done"} /\ written[target] # Null /\ written[target] = Payload
            /\ log # <<>> /\ fs[target] = before.file) =>
          /\ decision = "unchanged"
          /\ ~prompted
          /\ log = <<"gate">>
          /\ backups[target] = before.backups

\* A second run with the same payload over the file the first one wrote
C10_Witness ==
    /\ runs = 2
    /\ pc = "done"
    /\ decision = "unchanged"
    /\ ~prompted
    /\ log = <<"gate">>
    /\ written[target] # Null
    /\ written[target] = Payload
    /\ fs[target] # fs0[target]
    /\ TargetUntouched

\* C11: show_diff_and_confirm returns "unchanged" exactly when the old and
\* the new content have the same lines, that is when they are the same
\* text, and it then returns without asking the operator.
C11_UnchangedIffSameLines ==
    out.op = "confirm" =>
        /\ (out.val.decision = "unchanged") <=> (input.old_content = input.new_content)
        /\ (out.val.decision = "unchanged") => ~out.val.prompted

\* The gate is handed a hand-written file twice and an operator ready to
\* say yes
C11_Witness ==
    /\ out.op = "confirm"
    /\ out.val.decision = "unchanged"
    /\ input.old_content = UserSettings
    /\ input.response = "y"

\* C12: when the old and the new content differ, show_diff_and_confirm
\* asks the operator (its one call of input_fn, there is no loop around
\* it) and returns "apply" exactly for the answers that read y or yes once
\* trimmed and lower-cased; every other answer, the empty one included, is
\* "cancel".
C12_ApplyOnlyOnYes ==
    (out.op = "confirm" /\ input.old_content # input.new_content) =>
        /\ out.val.prompted
        /\ out.val.decision \in {"apply", "cancel"}
        /\ (out.val.decision = "apply") <=>
              (input.response \in {"y", "Y", "yes", " YES", "Yes ", " y "})

\* The operator answers " YES" to a diff between a hand-written file and
\* its reserialization
C12_Witness ==
    /\ out.op = "confirm"
    /\ out.val = [decision |-> "apply", prompted |-> TRUE]
    /\ input.response = " YES"
    /\ input.old_content = UserSettings
    /\ input.new_content = json_dumps(UserSettings.value, 4)

\* doc[k], Null when doc is not an object or has no such key
At(doc, k) == IF IsDict(doc) /\ k \in DOMAIN doc.f THEN doc.f[k] ELSE Null

\* Every field of the object old outside set is in new with the same value
Carried(old, new, set) ==
    IsDict(old) =>
        /\ IsDict(new)
        /\ \A k \in (DOMAIN old.f) \ set : k \in DOMAIN new.f /\ new.f[k] = old.f[k]

\* C13: inside a record the tool owns, every field the merger does not set
\* is in the new document with its value unchanged: the provider record of
\* the provider-map, provider-list and profile-table targets, the options
\* object of the provider-map record, and every profile generated in this
\* run.
C13_SiblingFieldsCarried ==
    pc \in {"gate", "apply"} =>
        /\ target = "opencode" =>
              LET old == At(At(ParsedDoc, "provider"), OpencodeProviderId)
                  new == At(At(NewDoc, "provider"), OpencodeProviderId)
              IN  /\ Carried(old, new, {"npm", "name", "options", "models"})
                  /\ Carried(At(old, "options"), At(new, "options"), {"baseURL"})
        /\ target = "pi" =>
              Carried(At(At(ParsedDoc, "providers"), PiProviderId),
                      At(At(NewDoc, "providers"), PiProviderId),
                      {"baseUrl", "api", "apiKey", "models"})
        /\ target = "codex" =>
              /\ Carried(At(At(ParsedDoc, "model_providers"), CodexProviderId),
                         At(At(NewDoc, "model_providers"), CodexProviderId),
                         {"name", "base_url", "wire_api"})
              /\ \A n \in GeneratedNames :
                    Carried(At(At(ParsedDoc, "profiles"), n),
                            At(At(NewDoc, "profiles"), n),
                            {"model", "model_provider"})

\* The operator's provider record has a timeout and an API key in its
\* options next to a name of their own; the merge renames the provider
\* and keeps both
C13_Witness ==
    /\ pc = "apply"
    /\ target = "opencode"
    /\ At(At(At(ParsedDoc, "provider"), OpencodeProviderId), "name") = Str("mine")
    /\ At(At(At(NewDoc, "provider"), OpencodeProviderId), "name") = Str(ProviderName)
    /\ At(At(At(NewDoc, "provider"), OpencodeProviderId), "timeout") = Num(30)
    /\ At(At(At(At(NewDoc, "provider"), OpencodeProviderId), "options"), "apiKey") = Str("k")

\* C14: after a merge the named scalar fields of the owned provider record
\* are the generated values whatever the file held, and the owned model
\* collection (the editor's customOAIModels map, the provider-map models
\* map, the provider-list models array) is exactly the generated one, so
\* no earlier model entry survives unless this run generated it.
C14_OwnedFieldsReplaced ==
    pc \in {"gate", "apply"} =>
        /\ target \in {"code", "code-insiders"} => At(NewDoc, CopilotKey) = Payload
        /\ target = "opencode" =>
              LET new == At(At(NewDoc, "provider"), OpencodeProviderId)
              IN  /\ At(new, "npm") = At(Payload, "npm")
                  /\ At(new, "name") = At(Payload, "name")
                  /\ At(At(new, "options"), "baseURL") = At(At(Payload, "options"), "baseURL")
                  /\ At(new, "models") = At(Payload, "models")
                  /\ At(new, "npm") # Null /\ At(new, "models") # Null
        /\ target = "pi" =>
              LET new == At(At(NewDoc, "providers"), PiProviderId)
              IN  /\ At(new, "baseUrl") = At(Payload, "baseUrl")
                  /\ At(new, "api") = At(Payload, "api")
                  /\ At(new, "apiKey") = At(Payload, "apiKey")
                  /\ At(new, "models") = At(Payload, "models")
                  /\ At(new, "api") # Null /\ At(new, "models") # Null
        /\ target = "codex" =>
              LET new == At(At(NewDoc, "model_providers"), CodexProviderId)
                  gen == At(At(Payload, "model_providers"), CodexProviderId)
              IN  /\ At(new, "name") = At(gen, "name")
                  /\ At(new, "base_url") = At(gen, "base_url")
                  /\ At(new, "wire_api") = At(gen, "wire_api")
                  /\ At(new, "name") # Null

\* The operator's Pi provider had its own "api" and a model "old": the
\* new record has the generated api and only the generated models
C14_Witness ==
    /\ pc = "apply"
    /\ target = "pi"
    /\ At(At(At(ParsedDoc, "providers"), PiProviderId), "api") = Str("custom")
    /\ At(At(At(ParsedDoc, "providers"), PiProviderId), "models")
          = Arr(<<Obj("id" :> Str("old"))>>)
    /\ At(At(At(NewDoc, "providers"), PiProviderId), "api") = Str("openai-completions")
    /\ \A i \in 1..Len(At(At(At(NewDoc, "providers"), PiProviderId), "models").a) :
          At(At(At(At(NewDoc, "providers"), PiProviderId), "models").a[i], "id") # Str("old")

\* The descriptor passes the filter, is an llm and has a non-empty id
Survives(model, o) ==
    /\ model_matches_filters(model, o.min_context, o.tools_filter, o.vision_filter)
    /\ At(model, "type") = Str("llm")
    /\ At(model, "key") # Null
    /\ At(model, "key") # Str("")

\* The model or profile collection of a generator's payload
PayloadSection(g, payload) ==
    CASE g = "copilot" -> payload
      [] g = "opencode" -> At(payload, "models")
      [] g = "pi" -> At(payload, "models")
      [] g = "codex" -> At(payload, "profiles")

\* C15: when no descriptor of type llm with a non-empty id passes the
\* filter, the generator raises and hands back no payload; the run ends
\* with status 1 before any merger is reached, so every payload a merger
\* gets, and every payload written to a file, has a non-empty model or
\* profile collection.
C15_EmptyResultFails ==
    /\ (pc = "generate" /\ NeedsGenerate /\ FetchOutcomes[upstream].ok) =>
          LET fetched == FetchOutcomes[upstream].val
          IN  GenResult.ok <=> (\E i \in 1..Len(fetched) : Survives(fetched[i], opts))
    /\ (pc = "generate" /\ NeedsGenerate /\ ~GenResult.ok) =>
          GenResult.err \in {"ValueError", "ConnectionError"}
    /\ (pc = "done" /\ err = "ValueError") =>
          /\ exit_code = 1
          /\ cache[GeneratorOf(target)] = Null
          /\ m = NoMerge
          /\ log = <<>>
          /\ TargetUntouched
    /\ \A g \in Generators :
          cache[g] # Null => Truthy(PayloadSection(g, cache[g]))
    /\ \A t \in TargetSet :
          written[t] # Null => Truthy(PayloadSection(GeneratorOf(t), written[t]))

\* The catalog has an llm, but not one trained for tool use with an id:
\* "--tools required" leaves nothing, and the run over an existing Pi file
\* ends with the error
C15_Witness ==
    /\ pc = "done"
    /\ err = "ValueError"
    /\ exit_code = 1
    /\ target = "pi"
    /\ opts.tools_filter = "required"
    /\ FetchOutcomes[upstream].ok
    /\ \E i \in 1..Len(FetchOutcomes[upstream].val) :
          At(FetchOutcomes[upstream].val[i], "type") = Str("llm")
    /\ Exists(fs[target])

\* The ids of the descriptors of the model list that pass the filter, are
\* of type llm and have a non-empty id
ExpectedIds ==
    {input.models[i].f["key"].s :
        i \in {j \in 1..Len(input.models) : Survives(input.models[j], input)}}

\* The model ids in the payload a generator returned
OutputIds ==
    LET payload == out.val.val
    IN  CASE out.op = "copilot" -> DOMAIN payload.f
          [] out.op = "opencode" -> DOMAIN At(payload, "models").f
          [] out.op = "pi" ->
                {At(At(payload, "models").a[i], "id").s :
                    i \in 1..Len(At(payload, "models").a)}
          [] out.op = "codex" ->
                {At(At(payload, "profiles").f[n], "model").s :
                    n \in DOMAIN At(payload, "profiles").f}

\* C16: for every model list and criteria, the model ids in a generator's
\* output (editor map keys, provider-map model keys, provider-list model
\* ids, Codex profile "model" values) are exactly the ids of the
\* descriptors that pass filter_models, have type llm and a non-empty id;
\* embedding descriptors and descriptors without id never appear.
C16_OutputIdsAreSurvivors ==
    out.op \in Generators =>
        /\ out.val.ok <=> (ExpectedIds # {})
        /\ out.val.ok => OutputIds = ExpectedIds

\* An embedding model that reports capabilities, next to a vision llm: the
\* Codex profiles name the llm only
C16_Witness ==
    /\ out.op = "codex"
    /\ out.val.ok
    /\ input.models = <<ModelEmbeddingCaps, ModelB>>
    /\ input.vision_filter = "required"
    /\ OutputIds = {"B!"}

\* A criterion any/required/exclude is satisfied by a capability
Satisfied(criterion, has) ==
    CASE criterion = "required" -> has
      [] criterion = "exclude" -> ~has
      [] OTHER -> TRUE

\* The descriptor matches the criteria o, spelled out on its fields: only
\* an llm counts as supporting tools or vision
Matches(model, o) ==
    LET context == At(model, "max_context_length")
        llm == At(model, "type") = Str("llm")
        capabilities == At(model, "capabilities")
    IN  /\ o.min_context.t = "null" \/
              (context.t = "num" /\ context.n >= o.min_context.n)
        /\ Satisfied(o.tools_filter,
                     llm /\ At(capabilities, "trained_for_tool_use") = Bool(TRUE))
        /\ Satisfied(o.vision_filter, llm /\ At(capabilities, "vision") = Bool(TRUE))

\* C17: filter_models returns exactly the sub-sequence of its input, in
\* input order, of the models whose max_context_length is an integer not
\* below min_context (when min_context is set) and whose tool and vision
\* support satisfy the two criteria, a model that is not an llm supporting
\* neither; descriptors with absent fields are filtered, never an error.
C17_FilterIsOrderedSelection ==
    out.op = "filter_models" =>
        LET Test(model) == Matches(model, input)
        IN  out.val = SelectSeq(input.models, Test)

\* An llm whose context length is null and one whose context length is
\* exactly the minimum asked for: the second one is returned
C17_Witness ==
    /\ out.op = "filter_models"
    /\ input.models = <<ModelNullContext, ModelA>>
    /\ input.min_context = Num(4096)
    /\ input.tools_filter = "required"
    /\ out.val = <<ModelA>>

\* C18 as stated: with tools excluded and vision excluded, neither
\* model_supports_tool_calling nor model_supports_vision is true of any
\* model in the returned list.
C18_NoCapableModelReturned ==
    (out.op = "filter_models" /\ input.tools_filter = "exclude"
        /\ input.vision_filter = "exclude") =>
        \A i \in 1..Len(out.val) :
            /\ ~model_supports_tool_calling(out.val[i])
            /\ ~model_supports_vision(out.val[i])

\* C18, amended: with tools excluded and vision excluded, no returned
\* model of type llm reports tool support or vision support; a model of
\* another type counts as supporting neither and is returned whatever its
\* capabilities object says.
C18_NoCapableLlmReturned ==
    (out.op = "filter_models" /\ input.tools_filter = "exclude"
        /\ input.vision_filter = "exclude") =>
        \A i \in 1..Len(out.val) :
            At(out.val[i], "type") = Str("llm") =>
                /\ At(At(out.val[i], "capabilities"), "trained_for_tool_use") # Bool(TRUE)
                /\ At(At(out.val[i], "capabilities"), "vision") # Bool(TRUE)

\* Both exclusions over a tool-using llm and an embedding model whose
\* capabilities report tool use and vision: the llm is dropped, the
\* embedding model is returned
C18_Witness ==
    /\ out.op = "filter_models"
    /\ input.tools_filter = "exclude"
    /\ input.vision_filter = "exclude"
    /\ input.min_context = Null
    /\ input.models = <<ModelA, ModelEmbeddingCaps>>
    /\ out.val = <<ModelEmbeddingCaps>>

\* seq is in ascending order of Python's string comparison
Ascending(seq) == \A i \in 1..(Len(seq) - 1) : ~StrLess(seq[i + 1], seq[i])

\* C19: in the output of every generator the models come in ascending
\* order of model id, and the keys of every generated map (each model entry
\* and the provider record) come in ascending order of key.
C19_LexicographicOrder ==
    (out.op \in Generators /\ out.val.ok) =>
        /\ Ascending(ModelOrder(out.op, input.models, input.min_context,
                                input.tools_filter, input.vision_filter))
        /\ \A k \in 1..Len(MapKeyOrders(out.op)) : Ascending(MapKeyOrders(out.op)[k])

\* The context values generator g wrote for model id, in the fields of its
\* schema that carry a context length
ContextFields(g, payload, id) ==
    CASE g = "copilot" ->
            <<At(At(payload, id), "maxInputTokens"),
              At(At(payload, id), "maxOutputTokens")>>
      [] g = "opencode" ->
            <<At(At(At(At(payload, "models"), id), "limit"), "context"),
              At(At(At(At(payload, "models"), id), "limit"), "output")>>
      [] g = "pi" ->
            LET models == At(payload, "models").a
                entry == models[CHOOSE i \in 1..Len(models) :
                                    At(models[i], "id") = Str(id)]
            IN  <<At(entry, "contextWindow"), At(entry, "maxTokens")>>

\* C20: for every descriptor in the output whose max_context_length is
\* absent or null, the context fields of its entry (maxInputTokens and
\* maxOutputTokens, limit.context and limit.output, contextWindow and
\* maxTokens) are all 8192.
C20_UnknownContextDefaults ==
    (out.op \in {"copilot", "opencode", "pi"} /\ out.val.ok) =>
        \A i \in 1..Len(input.models) :
            (Survives(input.models[i], input)
                /\ At(input.models[i], "max_context_length") = Null) =>
                LET fields == ContextFields(out.op, out.val.val,
                                            input.models[i].f["key"].s)
                IN  \A k \in 1..Len(fields) : fields[k] = Num(DefaultContext)

\* The maximal runs of characters of [a-z0-9] in s, in order; cur is the
\* run being read
RECURSIVE Words(_, _)
Words(s, cur) ==
    LET done == IF cur = "" THEN <<>> ELSE <<cur>>
    IN  IF s = "" THEN done
        ELSE IF CharAt(s, 1) \in SlugChars THEN Words(Rest(s), cur \o CharAt(s, 1))
        ELSE done \o Words(Rest(s), "")

\* The words joined by "-"
RECURSIVE Joined(_)
Joined(words) ==
    IF words = <<>> THEN ""
    ELSE IF Len(words) = 1 THEN words[1]
    ELSE words[1] \o "-" \o Joined(Tail(words))

\* The slug as the claim describes it: the runs of [a-z0-9] of the
\* lower-cased id with one "-" between two of them, "model" when there is none
ExpectedSlug(model_id) ==
    LET words == Words(Lower(model_id), "")
    IN  IF words = <<>> THEN "model" ELSE Joined(words)

\* The largest suffix a name can get from the names in UsedPool
MaxSuffix == 4

\* C21: codex_profile_name_for_model(id, used) returns "lmstudio-" + slug
\* when that name is not in used, otherwise that base followed by "-k" for
\* the smallest k >= 2 for which the name is not in used; the name was not
\* in used before the call and is the only name the call adds to used.
C21_ProfileNameIsFirstFree ==
    out.op = "profile_name" =>
        LET base == "lmstudio-" \o ExpectedSlug(input.model_id)
            Suffixed(k) == base \o "-" \o ToDecimal(k)
        IN  /\ base \notin input.used_names => out.val = base
            /\ base \in input.used_names =>
                  \E k \in 2..MaxSuffix :
                      /\ out.val = Suffixed(k)
                      /\ \A j \in 2..(k - 1) : Suffixed(j) \in input.used_names
            /\ out.val \notin input.used_names
            /\ out.used_names = input.used_names \cup {out.val}

\* "My Model" when lmstudio-my-model and lmstudio-my-model-2 are taken and
\* lmstudio-my-model-3 is not: the name is lmstudio-my-model-3
C21_Witness ==
    /\ out.op = "profile_name"
    /\ input.model_id = "My Model"
    /\ input.used_names = {"lmstudio-my-model", "lmstudio-my-model-2", "lmstudio-a-2"}
    /\ out.val = "lmstudio-my-model-3"

\* The top-level keys a merger reads from the payload of its target (the
\* editor payload is the map of models itself)
RequiredKeys(tgt) ==
    CASE tgt = "opencode" -> {"npm", "name", "options", "models"}
      [] tgt = "pi" -> {"baseUrl", "api", "apiKey", "models"}
      [] tgt = "codex" -> {"model_providers", "profiles"}
      [] OTHER -> {}

\* Those of them whose value is a map
MapKeys(tgt) ==
    CASE tgt = "opencode" -> {"options", "models"}
      [] tgt = "codex" -> {"model_providers", "profiles"}
      [] OTHER -> {}

\* A required top-level key is missing, empty or not a map
Malformed(tgt, payload) ==
    \E k \in RequiredKeys(tgt) :
        \/ k \notin DOMAIN payload.f
        \/ ~Truthy(At(payload, k))
        \/ k \in MapKeys(tgt) /\ ~IsDict(At(payload, k))

\* C22: a merger handed a payload in which a required top-level key is
\* missing, empty or not a map fails before it reaches the confirm gate.
C22_MalformedPayloadFails ==
    (out.op = "merge" /\ Malformed(input.target, input.payload)) => ~out.val.ok

\* url ends in "/v1"
EndsInV1(url) == Len(url) >= 3 /\ SubSeq(url, Len(url) - 2, Len(url)) = "/v1"

\* The base URL in the payload of the provider-map, provider-list or
\* profile-table generator
EmittedBaseUrl(g, payload) ==
    CASE g = "opencode" -> At(At(payload, "options"), "baseURL")
      [] g = "pi" -> At(payload, "baseUrl")
      [] g = "codex" -> At(At(At(payload, "model_providers"), CodexProviderId), "base_url")

\* C23: normalize_openai_base_url returns a string that ends in "/v1" (so
\* without a trailing slash), and applied to its own result it returns that
\* result; the base URL in the output of the opencode, pi and codex
\* generators ends in "/v1".
C23_BaseUrlNormalized ==
    /\ out.op = "normalize" =>
          /\ EndsInV1(out.val)
          /\ out.again = out.val
    /\ (out.op \in {"opencode", "pi", "codex"} /\ out.val.ok) =>
          /\ EmittedBaseUrl(out.op, out.val.val).t = "str"
          /\ EndsInV1(EmittedBaseUrl(out.op, out.val.val).s)

\* A URL that has the suffix followed by two slashes comes back without them
C23_Witness ==
    /\ out.op = "normalize"
    /\ input.url = "h/v1//"
    /\ out.val = "h/v1"

\* C24: in all-targets mode each generator is called at most once in an
\* invocation, and only once a target that exists and uses it has been
\* reached; a target reaching its merger has its generator's payload; and
\* when the second editor target is processed after the first, the payload
\* it is merged with is the one the first editor's file holds.
C24_GeneratedOncePerRun ==
    mode = "all" =>
        /\ \A g \in Generators :
              /\ fetches[g] <= 1
              /\ fetches[g] = 1 =>
                    \E t \in attempted : GeneratorOf(t) = g /\ Exists(fs[t])
              /\ cache[g] # Null => fetches[g] = 1
        /\ pc \in {"merge", "gate", "apply"} =>
              /\ cache[GeneratorOf(target)] # Null
              /\ target \in attempted
        /\ (pc \in {"gate", "apply"} /\ target = "code-insiders" /\ "code" \in attempted) =>
              /\ fs["code"].kind = "valid"
              /\ At(fs["code"].value, CopilotKey) = cache["copilot"]
              /\ At(MergedDoc, CopilotKey) = cache["copilot"]

\* Both editors have a settings file: the second one is at its gate and the
\* generator has been called once
C24_Witness ==
    /\ mode = "all"
    /\ pc = "gate"
    /\ target = "code-insiders"
    /\ "code" \in attempted
    /\ fetches["copilot"] = 1
    /\ fs["code"].kind = "valid"
    /\ At(fs["code"].value, CopilotKey) = cache["copilot"]

\* C25: when the confirm gate returns "cancel" the invocation is over with
\* exit status 0 and without an error; the operator was asked, the gate is
\* the only thing the merger did, and the target file, its backups and its
\* directory are what they were when the merger was reached.
C25_CancelExitsZero ==
    decision = "cancel" =>
        /\ pc = "done"
        /\ exit_code = 0
        /\ err = "none"
        /\ prompted
        /\ log = <<"gate">>
        /\ TargetUntouched

\* The operator declines the change to an existing Codex config in a
\* single-target run
C25_Witness ==
    /\ decision = "cancel"
    /\ mode = "codex"
    /\ target = "codex"
    /\ Exists(fs[target])
    /\ exit_code = 0

\* C26: in all-targets mode a target the loop has passed without entering
\* its body has no file, and its backups and its directory are what they
\* were at the start; the skipped counter counts these targets; the loop
\* body is entered only for a target whose file exists; a generator none
\* of whose targets was entered has not been called and has no payload;
\* and when no target was entered the invocation ends with status 0 and
\* no file.
C26_MissingTargetsSkipped ==
    mode = "all" =>
        /\ \A i \in 1..Len(Targets) :
              (i < idx /\ Targets[i] \notin attempted) =>
                  /\ ~Exists(fs[Targets[i]])
                  /\ backups[Targets[i]] = Scenarios[scenario].backups[Targets[i]]
                  /\ dirs[Targets[i]] = Scenarios[scenario].dirs[Targets[i]]
        /\ skipped = Cardinality({i \in 1..Len(Targets) :
                                     i < idx /\ Targets[i] \notin attempted})
        /\ pc \in {"generate", "merge", "gate", "apply"} =>
              /\ target \in attempted
              /\ Exists(before.file)
        /\ \A g \in Generators :
              (\A t \in attempted : GeneratorOf(t) # g) =>
                  /\ fetches[g] = 0
                  /\ cache[g] = Null
        /\ (pc = "done" /\ idx > Len(Targets) /\ attempted = {}) =>
              /\ exit_code = 0
              /\ applied = 0
              /\ \A t \in TargetSet : ~Exists(fs[t])

\* An all-targets run on a machine where some targets have a file and
\* others do not: it ends having skipped some and handled others, with a
\* generator that was never called
C26_Witness ==
    /\ mode = "all"
    /\ pc = "done"
    /\ idx > Len(Targets)
    /\ skipped > 0
    /\ applied > 0
    /\ \E g \in Generators : fetches[g] = 0 /\ cache[g] = Null
    /\ \E g \in Generators : fetches[g] = 1

\* An all-targets run on a machine without any of the files
C26_WitnessNothing ==
    /\ mode = "all"
    /\ pc = "done"
    /\ skipped = Len(Targets)
    /\ \A g \in Generators : fetches[g] = 0

\* The lines of input.lines that begin with a space or a tab
IndentedLines ==
    {i \in 1..Len(input.lines) :
        input.lines[i] # "" /\ SubSeq(input.lines[i], 1, 1) \in {" ", "\t"}}

\* n is the number of spaces and tabs line begins with
BeginsWithBlanks(line, n) ==
    /\ n <= Len(line)
    /\ \A k \in 1..n : SubSeq(line, k, k) \in {" ", "\t"}
    /\ n < Len(line) => SubSeq(line, n + 1, n + 1) \notin {" ", "\t"}

\* The width the claim describes for input.lines
ExpectedIndent ==
    IF IndentedLines = {} THEN 2
    ELSE LET first == CHOOSE i \in IndentedLines : \A j \in IndentedLines : i <= j
         IN  CHOOSE n \in 1..Len(input.lines[first]) :
                 BeginsWithBlanks(input.lines[first], n)

\* C27: detect_indentation returns the number of spaces and tabs at the
\* start of the first line that begins with one, and 2 when no line does;
\* a JSON merger that finds the text as the existing file serializes the
\* merged document with that width, and with 2 when the file is empty.
C27_IndentationDetected ==
    /\ out.op = "detect_indentation" =>
          /\ out.val = ExpectedIndent
          /\ \A t \in JsonTargets :
                /\ out.new_content[t].canon
                /\ out.new_content[t].indent = ExpectedIndent
    /\ (out.op = "merge" /\ input.target \in JsonTargets /\ out.val.ok) =>
          out.val.val.new_content.indent =
              IF input.file.kind \in {"absent", "empty"} THEN 2 ELSE input.file.indent

\* A text whose first line is not indented and whose second line begins
\* with a space, a tab and a space: the width is 3 though the third line
\* has 4 spaces
C27_Witness ==
    /\ out.op = "detect_indentation"
    /\ input.lines = <<"{", " \t d", "    c">>
    /\ out.val = 3
    /\ out.new_content["pi"].indent = 3

\* A text indented by four spaces: the merged document is printed with 4
C27_WitnessFour ==
    /\ out.op = "detect_indentation"
    /\ input.lines = <<"{", "    c", "  a">>
    /\ out.val = 4
    /\ out.new_content["opencode"].indent = 4

\* C28: generate_codex_profiles returns one profile per distinct model id:
\* as many profiles as distinct ids, every name beginning with "lmstudio-",
\* every profile naming the given provider, every id the model of a
\* profile; and the same profiles for the ids in another order and with
\* repetitions.
C28_OneProfilePerId ==
    out.op = "generate_codex_profiles" =>
        LET ids == {input.model_ids[i] : i \in 1..Len(input.model_ids)}
            profiles == out.val.f
        IN  /\ Cardinality(DOMAIN profiles) = Cardinality(ids)
            /\ {profiles[n].f["model"].s : n \in DOMAIN profiles} = ids
            /\ \A n \in DOMAIN profiles :
                  /\ Len(n) > 9
                  /\ SubSeq(n, 1, 9) = "lmstudio-"
                  /\ DOMAIN profiles[n].f = {"model", "model_provider"}
                  /\ profiles[n].f["model_provider"] = Str(input.provider_id)
            /\ out.other = out.val

\* Two ids with the slug "my-model" and one whose slug is "my-model-2",
\* given out of order: the third gets the name "lmstudio-my-model-2-2"
C28_Witness ==
    /\ out.op = "generate_codex_profiles"
    /\ input.model_ids = <<"my model-2", "my model", "My Model">>
    /\ DOMAIN out.val.f =
          {"lmstudio-my-model", "lmstudio-my-model-2", "lmstudio-my-model-2-2"}
    /\ out.val.f["lmstudio-my-model-2-2"].f["model"] = Str("my model-2")

\* The state of an all-targets invocation that a "cancel" has ended
CancelledAllRun ==
    /\ pc = "done"
    /\ exit_code = 0
    /\ err = "none"
    /\ idx <= Len(Targets)
    /\ target = Targets[idx]
    /\ TargetUntouched
    /\ \A i \in 1..Len(Targets) : i > idx => Targets[i] \notin attempted
    /\ applied = Cardinality(attempted) - 1
    /\ \A i \in 1..Len(Targets) :
          (i < idx /\ Targets[i] \in attempted) =>
              LET again == MergeFor(Targets[i], fs[Targets[i]],
                                    cache[GeneratorOf(Targets[i])])
              IN  again.ok /\ again.val.new_content = fs[Targets[i]]

\* C29: in all-targets mode a "cancel" at one target's prompt ends the
\* invocation with status 0 at that target: the loop has not advanced, no
\* later target was entered, the target itself is untouched, every target
\* handled before holds the generated payload, and nothing on disk changes
\* after the cancel.
C29_CancelEndsAllTargetsRun ==
    /\ []((mode = "all" /\ decision = "cancel") => CancelledAllRun)
    /\ [][decision = "cancel" =>
            /\ pc' = "idle"
            /\ fs' = fs
            /\ backups' = backups
            /\ dirs' = dirs]_vars

\* The operator accepts the change to the first editor's settings and
\* declines at the opencode prompt; the Pi and Codex files exist and are
\* never reached
C29_Witness ==
    /\ mode = "all"
    /\ decision = "cancel"
    /\ target = "opencode"
    /\ "code" \in attempted
    /\ written["code"] = cache["copilot"]
    /\ Exists(fs["pi"])
    /\ Exists(fs["codex"])
    /\ "pi" \notin attempted
    /\ fetches["pi"] = 0

\* C30: every generated payload has each model id at most once: no two
\* entries of the editor map or of the provider map carry the same name,
\* no two Codex profiles the same model, no two entries of the
\* provider-list models array the same id.
C30_EachIdOnce ==
    (out.op \in Generators /\ out.val.ok) =>
        LET payload == out.val.val
            section == PayloadSection(out.op, payload)
        IN  CASE out.op = "pi" ->
                    \A i, j \in 1..Len(section.a) :
                        At(section.a[i], "id") = At(section.a[j], "id") => i = j
              [] out.op = "codex" ->
                    \A n1, n2 \in DOMAIN section.f :
                        At(section.f[n1], "model") = At(section.f[n2], "model") => n1 = n2
              [] OTHER ->
                    \A id1, id2 \in DOMAIN section.f :
                        At(section.f[id1], "name") = At(section.f[id2], "name") => id1 = id2

====
